---- MODULE Spec2Model ----
(***************************************************************************)
(* Model of the kgene background pipeline:                                 *)
(*   - ProgressTracker and calculate_stage_progress                        *)
(*       (backend/app/workers/progress_tracker.py)                         *)
(*   - process_organism_job (backend/app/workers/process_job.py)           *)
(*                                                                         *)
(* Percentages are exact rationals [n, d] (n/d percent, d > 0, reduced).   *)
(* Strings whose only relevant property is their length (exception texts,  *)
(* error messages) are records [tag, len].                                 *)
(* Optional values: <<>> is None, <<v>> is the value v.                    *)
(***************************************************************************)
EXTENDS Integers, Sequences, FiniteSets, Bags, TLC

VARIABLES
    \* ---- durable store (PostgreSQL), committed state ----
    db,             \* [exists, status, job_id, job_error, genes]; genes is
                    \* the bag of the organism's gene rows (a table has no order)
    \* ---- ephemeral store (Redis), the key progress:{job_id} ----
    redis,          \* <<>> when the key is absent, <<data, expires_at>>
                    \* otherwise
    now,            \* clock read by datetime.now()
    \* ---- one invocation of process_organism_job ----
    pc,             \* position in the job
    runs,           \* number of deliveries of the job so far
    organism,       \* the local `organism` (ORM object attached to the session)
    session_genes,  \* the session's view of the organism's gene rows
    genes_data,     \* list returned by list_organism_genes
    total_genes,
    batch_i,        \* loop variable i of the batch insert loop
    ortholog_results,
    gene_lookup,    \* gene name -> row of session_genes
    result_i,       \* position of the for-loop over ortholog_results
    genes_processed,
    genes_with_orthologs,
    exception,      \* exception caught by the except clause, <<>> if none
    outcome,        \* <<>> while running, <<[kind, exc]>> once terminated
    \* ---- observation of the run (history) ----
    stageLog,       \* stage values written to the progress entry in this run
    completeCommitted, \* status='complete' was committed in this run
    \* ---- direct use of the ProgressTracker API ----
    lastCall,       \* the last ProgressTracker call and its arguments
    calls,          \* number of ProgressTracker calls made
    \* ---- evaluation of calculate_stage_progress ----
    calc,           \* [stage, processed, total, result, prev]
    \* ---- one KEGGClient instance and the coroutines that share it ----
    client,         \* self.client is set (inside `async with KEGGClient()`)
    last_request_time, \* self._last_request_time, <<>> for None
    rate_limit_lock,   \* self._rate_limit_lock: its holder, 0 when free
    co,             \* per coroutine: position and locals of its _request call
    plan,           \* per coroutine: `retries` arguments of the calls to come
    remote,         \* status codes the remote side answers with
    clientLog,      \* observation of the instance (history)
    \* ---- one call of OrthologService.find_orthologs_for_organism ----
    genes,          \* the argument `genes` (gene names)
    ko_mappings,    \* <<>> before the fetch, <<gene name -> KO ids>> after
    tasks,          \* per input position: the find_with_semaphore coroutine
    semaphore,      \* free permits of the asyncio.Semaphore
    service,        \* [pc, exception, results] of the call
    \* ---- one call of OrthologService._find_best_ortholog_in_ko ----
    selection,      \* [pc, exclude_organism, genes_in_ko, ortholog]
    \* ---- the process endpoints (backend/app/api/processes.py) ----
    api,            \* per start request its position, its session's view of
                    \* the organism, its job id and its response; the same
                    \* for the delete request
    enqueued        \* ids of the jobs handed to the queue, in order

vars == <<db, redis, now, pc, runs, organism, session_genes, genes_data,
          total_genes, batch_i, ortholog_results, gene_lookup, result_i,
          genes_processed, genes_with_orthologs, exception, outcome,
          stageLog, completeCommitted, lastCall, calls, calc,
          client, last_request_time, rate_limit_lock, co, plan, remote,
          clientLog, genes, ko_mappings, tasks, semaphore, service,
          selection, api, enqueued>>

clientVars == <<client, last_request_time, rate_limit_lock, co, plan, remote,
                clientLog>>

serviceVars == <<genes, ko_mappings, tasks, semaphore, service, selection>>

apiVars == <<api, enqueued>>

jobVars == <<pc, runs, organism, session_genes, genes_data, total_genes,
             batch_i, ortholog_results, gene_lookup, result_i,
             genes_processed, genes_with_orthologs, exception, outcome,
             stageLog, completeCommitted>>

(***************************************************************************)
(* Bounds of the model                                                     *)
(***************************************************************************)
\* number of genes an organism can have in the model
MaxGenes == 3
\* deliveries of the same job (at-least-once delivery)
MaxRuns == 2
\* genes per insert transaction (500 in the source, scaled to the model)
BATCH_SIZE == 2
\* genes between two progress updates (100 in the source, scaled)
PROGRESS_UPDATE_INTERVAL == 2
\* ProgressTracker calls in a direct-use behaviour
MaxCalls == 3
\* time covered by a direct-use behaviour, in TTL periods
MaxClock == 1
\* largest total_items given to calculate_stage_progress
MaxTotal == 8
\* permits of the semaphore of find_orthologs_for_organism (5 in the source,
\* scaled to the model)
SemaphorePermits == 1
\* genes handed to one call of find_orthologs_for_organism
MaxBatch == 2
\* entries of one group-membership response handed to
\* _find_best_ortholog_in_ko
MaxGroup == 3
\* POST /processes/{organism_id}/start requests in a behaviour
MaxStarts == 2
\* `retries` of the requests of a batch (MAX_RETRIES, 10, in the source)
BatchRetries == 2
\* coroutines sharing one KEGGClient instance
MaxCoroutines == 2
\* _request calls made on the instance in a behaviour
MaxRequests == 3
\* time covered by a behaviour of the shared instance, in ticks
MaxTime == 21

(***************************************************************************)
(* Helpers: optional values, rationals, strings-as-lengths                 *)
(***************************************************************************)
None == <<>>
Some(v) == <<v>>

Min(a, b) == IF a <= b THEN a ELSE b
Abs(a) == IF a < 0 THEN -a ELSE a

RECURSIVE Gcd(_, _)
Gcd(a, b) == IF b = 0 THEN a ELSE Gcd(b, a % b)

\* the rational n/d in lowest terms, d > 0
Pct(n, d) ==
    LET g == Gcd(Abs(n), d)
    IN  IF n = 0 THEN [n |-> 0, d |-> 1] ELSE [n |-> n \div g, d |-> d \div g]

PctInt(k) == [n |-> k, d |-> 1]
PctLE(a, b) == a.n * b.d <= b.n * a.d
PctLT(a, b) == a.n * b.d < b.n * a.d

\* Python round(x, 2): nearest multiple of 0.01, ties to even
Round2(p) ==
    LET num == p.n * 100
        q   == num \div p.d
        r   == num % p.d
        c   == IF 2 * r < p.d THEN q
               ELSE IF 2 * r > p.d THEN q + 1
               ELSE IF q % 2 = 0 THEN q ELSE q + 1
    IN  Pct(c, 100)

\* s[:k] of a string of length s.len
Truncate(s, k) == [s EXCEPT !.len = Min(s.len, k)]
\* f"{prefix}{s}" where prefix has plen characters
Prefixed(tag, plen, s) == [tag |-> tag, len |-> plen + s.len]

(***************************************************************************)
(* ProgressTracker                                                         *)
(***************************************************************************)
STAGE_FETCHING_GENES == "fetching_genes"
STAGE_STORING_GENES == "storing_genes"
STAGE_FINDING_ORTHOLOGS == "finding_orthologs"
STAGE_COMPLETE == "complete"
STAGE_ERROR == "error"

Stages == {STAGE_FETCHING_GENES, STAGE_STORING_GENES, STAGE_FINDING_ORTHOLOGS}

\* STAGE_WEIGHTS.get(stage, dflt)
STAGE_WEIGHTS(stage, dflt) ==
    CASE stage = STAGE_FETCHING_GENES -> <<0, 10>>
      [] stage = STAGE_STORING_GENES -> <<10, 15>>
      [] stage = STAGE_FINDING_ORTHOLOGS -> <<15, 100>>
      [] OTHER -> dflt

\* ProgressTracker.TTL_SECONDS (24 hours)
TTL_SECONDS == 86400

\* redis.setex(key, TTL_SECONDS, json.dumps(data)) at time t: the key holds
\* data until TTL_SECONDS have passed
Setex(data, t) == <<data, t + TTL_SECONDS>>

\* the empty dict {}
EmptyDict == <<>>
\* truth value of an Optional[Dict]: None and {} are false
Truthy(opt) == opt # None /\ opt[1] # EmptyDict

\* ProgressTracker.start: the data written under the key
TrackerStart(organism_id, organism_code, total, t) ==
    [organism_id |-> organism_id,
     organism_code |-> organism_code,
     stage |-> STAGE_FETCHING_GENES,
     progress |-> PctInt(0),
     total_genes |-> total,
     genes_processed |-> 0,
     genes_with_orthologs |-> 0,
     errors |-> 0,
     started_at |-> t,
     updated_at |-> t,
     error_message |-> None,
     final_stats |-> None]

\* `x or 0` for an Optional[int]
OrZero(opt) == IF opt = None THEN 0 ELSE opt[1]
\* `if x is not None: data[k] = x`
IfGiven(opt, old) == IF opt = None THEN old ELSE opt[1]

\* ProgressTracker.update: the data written under the key, given the
\* current content cur (<<>> if the key is absent)
TrackerUpdate(cur, stage, progress, gp, gwo, errs, tg, t) ==
    IF cur = <<>>
    THEN [organism_id |-> 0,
          organism_code |-> "unknown",
          stage |-> stage,
          progress |-> progress,
          total_genes |-> OrZero(tg),
          genes_processed |-> OrZero(gp),
          genes_with_orthologs |-> OrZero(gwo),
          errors |-> OrZero(errs),
          started_at |-> t,
          updated_at |-> t,
          error_message |-> None,
          final_stats |-> None]
    ELSE [cur[1] EXCEPT
          !.stage = stage,
          !.progress = Round2(progress),
          !.updated_at = t,
          !.genes_processed = IfGiven(gp, @),
          !.genes_with_orthologs = IfGiven(gwo, @),
          !.errors = IfGiven(errs, @),
          !.total_genes = IfGiven(tg, @)]

\* ProgressTracker.complete leaving the percentage at its last value
TrackerCompleteKeepsPercent(cur, final_stats, t) ==
    IF cur = <<>> THEN cur
    ELSE Setex([cur[1] EXCEPT
                !.stage = STAGE_COMPLETE,
                !.updated_at = t,
                !.final_stats = IF Truthy(final_stats) THEN final_stats
                                ELSE @],
               t)

\* ProgressTracker.complete writing the entry without a new time to live
TrackerCompleteKeepsTtl(cur, final_stats, t) ==
    IF cur = <<>> THEN cur
    ELSE <<[cur[1] EXCEPT
            !.stage = STAGE_COMPLETE,
            !.progress = PctInt(100),
            !.updated_at = t,
            !.final_stats = IF Truthy(final_stats) THEN final_stats
                            ELSE @],
           cur[2]>>

\* ProgressTracker.complete: new content of the key (nothing is written
\* when the key is absent)
TrackerComplete(cur, final_stats, t) ==
    IF cur = <<>> THEN cur
    ELSE Setex([cur[1] EXCEPT
                !.stage = STAGE_COMPLETE,
                !.progress = PctInt(100),
                !.updated_at = t,
                !.final_stats = IF Truthy(final_stats) THEN final_stats
                                ELSE @],
               t)

\* ProgressTracker.error: new content of the key
TrackerErrorReset(cur, error_message, t) ==
    IF cur = <<>> THEN cur
    ELSE Setex([cur[1] EXCEPT
                !.stage = STAGE_ERROR,
                !.progress = PctInt(0),
                !.error_message = Some(Truncate(error_message, 1000)),
                !.updated_at = t],
               t)

TrackerError(cur, error_message, t) ==
    IF cur = <<>> THEN cur
    ELSE Setex([cur[1] EXCEPT
                !.stage = STAGE_ERROR,
                !.error_message = Some(Truncate(error_message, 1000)),
                !.updated_at = t],
               t)

\* calculate_stage_progress with the fetching range used for every stage
calculate_stage_progress_wrong_range(stage, items_processed, total_items) ==
    IF total_items = 0
    THEN PctInt(0)
    ELSE Pct(10 * items_processed, total_items)

\* calculate_stage_progress counting the items that remain
calculate_stage_progress_remaining(stage, items_processed, total_items) ==
    IF total_items = 0
    THEN PctInt(STAGE_WEIGHTS(stage, <<0, 0>>)[1])
    ELSE LET w == STAGE_WEIGHTS(stage, <<0, 100>>)
         IN  Pct(w[1] * total_items
                   + (w[2] - w[1]) * (total_items - items_processed),
                 total_items)

calculate_stage_progress(stage, items_processed, total_items) ==
    IF total_items = 0
    THEN PctInt(STAGE_WEIGHTS(stage, <<0, 0>>)[1])
    ELSE LET w == STAGE_WEIGHTS(stage, <<0, 100>>)
         IN  Pct(w[1] * total_items + (w[2] - w[1]) * items_processed,
                 total_items)

(***************************************************************************)
(* Values shared by the specifications                                     *)
(***************************************************************************)
JOB_ID == "job-1"
ORGANISM_ID == 1
ORGANISM_CODE == "eco"

NoExc == [type |-> "none", len |-> 0, stage |-> "none"]
\* no ProgressTracker call yet; `started` records that start() has been called,
\* `final_stats` is the argument of complete()
NoCall == [op |-> "none", stage |-> "none", progress |-> PctInt(0),
           existed |-> FALSE, final_stats |-> None, started |-> FALSE]
NoCalc == [stage |-> STAGE_FETCHING_GENES, processed |-> 0, total |-> 0,
           result |-> None, prev |-> None]
NoOrganism == [state |-> "unbound", status |-> "unset", job_id |-> None,
               job_error |-> None]

Coroutines == 1..MaxCoroutines

\* a coroutine that is not inside _request
IdleCo ==
    [pc |-> "idle", retries |-> 0, attempt |-> 0, wake |-> 0,
     net_calls |-> 0, sleeps |-> <<>>, seen |-> {}, last_status |-> 0 - 1,
     result |-> "none"]

NoClientLog ==
    [first_start |-> None, passes |-> 0, net_calls |-> 0, last_net |-> None]

\* no KEGGClient is in use
ClientUnused ==
    /\ client = FALSE
    /\ last_request_time = None
    /\ rate_limit_lock = 0
    /\ co = [c \in Coroutines |-> IdleCo]
    /\ plan = [c \in Coroutines |-> <<>>]
    /\ remote = {}
    /\ clientLog = NoClientLog

\* find_orthologs_for_organism has not been called
NoService ==
    [pc |-> "idle", exception |-> "none", results |-> <<>>,
     permits |-> SemaphorePermits]

\* _find_best_ortholog_in_ko has not been called
NoSelection ==
    [pc |-> "idle", exclude_organism |-> "", genes_in_ko |-> <<>>,
     ortholog |-> <<>>]

ServiceUnused ==
    /\ genes = <<>>
    /\ ko_mappings = None
    /\ tasks = <<>>
    /\ semaphore = 0
    /\ service = NoService
    /\ selection = NoSelection

\* the endpoints have not been called
StartRequests == 1..MaxStarts

NoResponse == [code |-> 0, job_id |-> None]

IdleStart ==
    [pc |-> "idle",
     loaded |-> [status |-> "unset", job_id |-> None, job_error |-> None],
     job_id |-> None,
     response |-> NoResponse]

IdleDelete ==
    [pc |-> "idle",
     loaded |-> [status |-> "unset", job_id |-> None, job_error |-> None],
     response |-> NoResponse]

\* body of the answer to a progress query; keys a dict lacks are None
NoProgress ==
    [code |-> 0, status |-> "none", stage |-> "none", progress |-> None,
     error_message |-> None]

IdleQuery ==
    [pc |-> "idle",
     loaded |-> [status |-> "unset", job_id |-> None, job_error |-> None],
     response |-> NoProgress,
     asked |-> FALSE]

ApiUnused ==
    /\ api = [start |-> [r \in StartRequests |-> IdleStart],
              delete |-> IdleDelete,
              query |-> IdleQuery]
    /\ enqueued = <<>>

\* gene lists the data client can return: the first n genes of the organism,
\* in the order of the remote listing (names are distinct)
GeneLists == {[k \in 1..n |-> k] : n \in 0..MaxGenes}

\* the job is not running and has never run
JobIdle ==
    /\ pc = "idle"
    /\ runs = 0
    /\ organism = NoOrganism
    /\ session_genes = EmptyBag
    /\ genes_data = <<>>
    /\ total_genes = 0
    /\ batch_i = 0
    /\ ortholog_results = <<>>
    /\ gene_lookup = <<>>
    /\ result_i = 0
    /\ genes_processed = 0
    /\ genes_with_orthologs = 0
    /\ exception = <<>>
    /\ outcome = <<>>
    /\ stageLog = <<>>
    /\ completeCommitted = FALSE

\* a freshly created organism row (POST /organisms leaves status NULL)
FreshDb(exists) ==
    [exists |-> exists, status |-> "unset", job_id |-> None,
     job_error |-> None, genes |-> EmptyBag]

\* the row once POST /processes/{id}/start has committed status='pending'
\* and the id of the job it enqueued (api/processes.py:279-286)
EnqueuedDb ==
    [exists |-> TRUE, status |-> "pending", job_id |-> Some(JOB_ID),
     job_error |-> None, genes |-> EmptyBag]

(***************************************************************************)
(* Direct use of the ProgressTracker API, with arbitrary arguments         *)
(***************************************************************************)
\* progress arguments: below 0, inside each range, not a multiple of 0.01,
\* above 100
ProgressArgs == {PctInt(0 - 5), PctInt(0), Pct(100, 3), PctInt(50),
                 PctInt(100), PctInt(150)}
\* optional arguments <<genes_processed, genes_with_orthologs, errors,
\* total_genes>>: each of them both given and omitted
CounterArgs ==
    {<<None, None, None, None>>,
     <<Some(1), Some(1), None, None>>,
     <<None, None, Some(1), Some(2)>>,
     <<Some(1), Some(1), Some(1), Some(2)>>}
FinalStatsArgs ==
    {None, Some(EmptyDict),
     Some([total_genes |-> 2, genes_with_orthologs |-> 1])}
MessageArgs == {[tag |-> "msg", len |-> 20], [tag |-> "msg", len |-> 2000]}

\* instants at which the clock is observed: the start, and for each TTL
\* period the last second before its end and its end
ClockValues ==
    {0} \cup {k * TTL_SECONDS - 1 : k \in 1..MaxClock}
        \cup {k * TTL_SECONDS : k \in 1..MaxClock}

\* content of the key at time t: Redis removes a key once its time to live
\* has passed
Expired(cur, t) == IF cur # <<>> /\ t >= cur[2] THEN <<>> ELSE cur

\* ProgressTracker.get_progress
get_progress(cur) == IF cur = <<>> THEN None ELSE Some(cur[1])

TrackerInit ==
    /\ JobIdle
    /\ ApiUnused
    /\ ClientUnused
    /\ ServiceUnused
    /\ db = FreshDb(TRUE)
    /\ redis = <<>>
    /\ now = 0
    /\ lastCall = NoCall
    /\ calls = 0
    /\ calc = NoCalc

\* time passes without the key expiring
TickKeepsKey ==
    /\ \E t \in ClockValues :
         /\ t > now
         /\ now' = t
    /\ UNCHANGED <<db, redis, jobVars, lastCall, calls, calc, clientVars,
                   serviceVars, apiVars>>

\* time passes; the key is gone once its time to live has passed
Tick ==
    /\ \E t \in ClockValues :
         /\ t > now
         /\ now' = t
         /\ redis' = Expired(redis, t)
    /\ UNCHANGED <<db, jobVars, lastCall, calls, calc, clientVars,
                   serviceVars, apiVars>>

ApiStart ==
    /\ calls < MaxCalls
    /\ \E tg \in {0, 2} :
         redis' = Setex(TrackerStart(ORGANISM_ID, ORGANISM_CODE, tg, now), now)
    /\ lastCall' = [op |-> "start", stage |-> STAGE_FETCHING_GENES,
                    progress |-> PctInt(0), existed |-> redis # <<>>,
                    final_stats |-> None, started |-> TRUE]
    /\ calls' = calls + 1
    /\ UNCHANGED <<db, now, jobVars, calc, clientVars,
                   serviceVars, apiVars>>

ApiUpdate ==
    /\ calls < MaxCalls
    /\ \E stage \in Stages, p \in ProgressArgs, c \in CounterArgs :
         /\ redis' = Setex(TrackerUpdate(redis, stage, p, c[1], c[2], c[3],
                                         c[4], now), now)
         /\ lastCall' = [op |-> "update", stage |-> stage, progress |-> p,
                         existed |-> redis # <<>>, final_stats |-> None,
                         started |-> lastCall.started]
    /\ calls' = calls + 1
    /\ UNCHANGED <<db, now, jobVars, calc, clientVars,
                   serviceVars, apiVars>>

ApiComplete ==
    /\ calls < MaxCalls
    /\ \E fs \in FinalStatsArgs :
         /\ redis' = TrackerComplete(redis, fs, now)
         /\ lastCall' = [op |-> "complete", stage |-> STAGE_COMPLETE,
                         progress |-> PctInt(100), existed |-> redis # <<>>,
                         final_stats |-> fs, started |-> lastCall.started]
    /\ calls' = calls + 1
    /\ UNCHANGED <<db, now, jobVars, calc, clientVars,
                   serviceVars, apiVars>>

ApiError ==
    /\ calls < MaxCalls
    /\ \E msg \in MessageArgs : redis' = TrackerError(redis, msg, now)
    /\ lastCall' = [op |-> "error", stage |-> STAGE_ERROR,
                    progress |-> PctInt(0), existed |-> redis # <<>>,
                    final_stats |-> None, started |-> lastCall.started]
    /\ calls' = calls + 1
    /\ UNCHANGED <<db, now, jobVars, calc, clientVars,
                   serviceVars, apiVars>>

\* ProgressTracker.delete
ApiDelete ==
    /\ calls < MaxCalls
    /\ redis' = <<>>
    /\ lastCall' = [op |-> "delete", stage |-> "none",
                    progress |-> PctInt(0), existed |-> redis # <<>>,
                    final_stats |-> None, started |-> lastCall.started]
    /\ calls' = calls + 1
    /\ UNCHANGED <<db, now, jobVars, calc, clientVars,
                   serviceVars, apiVars>>

TrackerNext ==
    \/ Tick
    \/ ApiStart
    \/ ApiUpdate
    \/ ApiComplete
    \/ ApiError
    \/ ApiDelete

SpecTracker == TrackerInit /\ [][TrackerNext]_vars

(***************************************************************************)
(* Evaluation of calculate_stage_progress over its inputs                  *)
(***************************************************************************)
CalcInit ==
    /\ JobIdle
    /\ ApiUnused
    /\ ClientUnused
    /\ ServiceUnused
    /\ db = FreshDb(TRUE)
    /\ redis = <<>>
    /\ now = 0
    /\ lastCall = NoCall
    /\ calls = 0
    /\ \E stage \in Stages, total \in 0..MaxTotal :
         calc = [stage |-> stage, processed |-> 0, total |-> total,
                 result |-> None, prev |-> None]

\* evaluate at processed = 0 first, then at each next value of processed
CalcApply ==
    /\ \/ /\ calc.result = None
          /\ calc' = [calc EXCEPT
                      !.result = Some(calculate_stage_progress(
                                        calc.stage, calc.processed, calc.total))]
       \/ /\ calc.result # None
          /\ calc.processed < calc.total
          /\ calc' = [calc EXCEPT
                      !.processed = @ + 1,
                      !.prev = calc.result,
                      !.result = Some(calculate_stage_progress(
                                        calc.stage, calc.processed + 1,
                                        calc.total))]
    /\ UNCHANGED <<db, redis, now, jobVars, lastCall, calls, clientVars,
                   serviceVars, apiVars>>

CalcNext == CalcApply

SpecCalc == CalcInit /\ [][CalcNext]_vars

(***************************************************************************)
(* KEGGClient (backend/app/services/kegg_api.py)                           *)
(*                                                                         *)
(* Coroutines of one event loop share the instance; a coroutine gives up   *)
(* control only at an await (lock acquisition, asyncio.sleep, client.get), *)
(* so there is one action per await.  Time is counted in ticks of 1/20 s.  *)
(***************************************************************************)
TicksPerSecond == 20
\* RATE_LIMIT_DELAY = 0.35 (seconds), in ticks
RATE_LIMIT_DELAY == (35 * TicksPerSecond) \div 100
MAX_RETRIES == 10
\* INITIAL_RETRY_DELAY = 1.0, MAX_RETRY_DELAY = 30.0 (seconds)
INITIAL_RETRY_DELAY == 1 * TicksPerSecond
MAX_RETRY_DELAY == 30 * TicksPerSecond

\* httpx.RequestError raised by client.get, in place of a status code
REQUEST_ERROR == 0
\* answers of the remote side: success, rate limiting (403, 429), server
\* error, network failure
Responses == {200, 403, 429, 500, REQUEST_ERROR}

RECURSIVE Pow2(_)
Pow2(k) == IF k = 0 THEN 1 ELSE 2 * Pow2(k - 1)

\* INITIAL_RETRY_DELAY * (2 ** attempt) without the cap
BackoffDelayUncapped(attempt) == INITIAL_RETRY_DELAY * Pow2(attempt)

\* min(INITIAL_RETRY_DELAY * (2 ** attempt), MAX_RETRY_DELAY)
BackoffDelay(attempt) ==
    Min(INITIAL_RETRY_DELAY * Pow2(attempt), MAX_RETRY_DELAY)

\* response = await self.client.get(endpoint) is issued by coroutine c whose
\* locals are r
IssueGet(c, r, log) ==
    /\ co' = [co EXCEPT ![c] = [r EXCEPT !.pc = "get", !.net_calls = @ + 1]]
    /\ clientLog' = [log EXCEPT !.net_calls = @ + 1, !.last_net = Some(now)]

\* _request returns or raises
Finish(c, r, result) ==
    co' = [co EXCEPT ![c] = [r EXCEPT !.pc = "idle", !.result = result]]

\* end of _rate_limit with the lock kept by the request for its attempts
PassKeepsLock(c, r, log) ==
    /\ last_request_time' = Some(now)
    /\ rate_limit_lock' = c
    /\ IF r.retries = 0
       THEN /\ Finish(c, r, "KEGGAPIError")
            /\ clientLog' = [log EXCEPT !.passes = @ + 1]
       ELSE IssueGet(c, r, [log EXCEPT !.passes = @ + 1])

\* end of _rate_limit: the timestamp is recorded and the lock released; then
\* the retry loop starts
Pass(c, r, log) ==
    /\ last_request_time' = Some(now)
    /\ rate_limit_lock' = 0
    /\ IF r.retries = 0
       THEN /\ Finish(c, r, "KEGGAPIError")
            /\ clientLog' = [log EXCEPT !.passes = @ + 1]
       ELSE IssueGet(c, r, [log EXCEPT !.passes = @ + 1])

\* body of _rate_limit without the sleep
EnterNoSleep(c, r, log) == Pass(c, r, log)

\* body of _rate_limit without `async with self._rate_limit_lock`
EnterUnlocked(c, r, log) ==
    IF /\ last_request_time # None
       /\ now - last_request_time[1] < RATE_LIMIT_DELAY
    THEN /\ co' = [co EXCEPT ![c] =
                     [r EXCEPT !.pc = "rl_sleep",
                               !.wake = now + (RATE_LIMIT_DELAY
                                               - (now - last_request_time[1]))]]
         /\ clientLog' = log
         /\ UNCHANGED <<last_request_time, rate_limit_lock>>
    ELSE Pass(c, r, log)

\* body of _rate_limit once the lock is held
Enter(c, r, log) ==
    IF /\ last_request_time # None
       /\ now - last_request_time[1] < RATE_LIMIT_DELAY
    THEN /\ co' = [co EXCEPT ![c] =
                     [r EXCEPT !.pc = "rl_sleep",
                               !.wake = now + (RATE_LIMIT_DELAY
                                               - (now - last_request_time[1]))]]
         /\ rate_limit_lock' = c
         /\ clientLog' = log
         /\ UNCHANGED last_request_time
    ELSE Pass(c, r, log)

\* coroutine c calls _request(endpoint, retries)
RequestStart(c) ==
    /\ co[c].pc = "idle"
    /\ plan[c] # <<>>
    /\ plan' = [plan EXCEPT ![c] = Tail(@)]
    /\ LET r == [IdleCo EXCEPT !.retries = Head(plan[c])]
           log == [clientLog EXCEPT
                   !.first_start = IF @ = None THEN Some(now) ELSE @]
       IN  IF ~client
           THEN /\ Finish(c, r, "KEGGAPIError")
                /\ clientLog' = log
                /\ UNCHANGED <<last_request_time, rate_limit_lock>>
           ELSE IF \/ rate_limit_lock # 0
                   \/ \E d \in Coroutines : co[d].pc = "rl_wait"
           THEN /\ co' = [co EXCEPT ![c] = [r EXCEPT !.pc = "rl_wait"]]
                /\ clientLog' = log
                /\ UNCHANGED <<last_request_time, rate_limit_lock>>
           ELSE Enter(c, r, log)
    /\ UNCHANGED <<db, redis, now, jobVars, lastCall, calls, calc,
                   serviceVars, apiVars, client,
                   remote>>

\* a coroutine waiting for the lock gets it
LockAcquired(c) ==
    /\ co[c].pc = "rl_wait"
    /\ rate_limit_lock = 0
    /\ Enter(c, co[c], clientLog)
    /\ UNCHANGED <<db, redis, now, jobVars, lastCall, calls, calc,
                   serviceVars, apiVars, client,
                   plan, remote>>

\* asyncio.sleep(RATE_LIMIT_DELAY - elapsed) is over
RateLimitWake(c) ==
    /\ co[c].pc = "rl_sleep"
    /\ now >= co[c].wake
    /\ Pass(c, co[c], clientLog)
    /\ UNCHANGED <<db, redis, now, jobVars, lastCall, calls, calc,
                   serviceVars, apiVars, client,
                   plan, remote>>

\* _request retrying while attempt < retries
ResponseOneMore(c) ==
    /\ co[c].pc = "get"
    /\ \E st \in remote :
         LET r == [co[c] EXCEPT !.last_status = st]
             failed == [r EXCEPT !.seen = @ \cup {st}]
             retry == [failed EXCEPT
                       !.pc = "backoff",
                       !.sleeps = Append(@, BackoffDelay(r.attempt)),
                       !.wake = now + BackoffDelay(r.attempt)]
         IN  IF st # REQUEST_ERROR /\ st \in {403, 429}
             THEN IF r.attempt < r.retries
                  THEN co' = [co EXCEPT ![c] = retry]
                  ELSE Finish(c, failed, "KEGGRateLimitError")
             ELSE IF st = REQUEST_ERROR \/ st >= 400
             THEN IF r.attempt < r.retries
                  THEN co' = [co EXCEPT ![c] = retry]
                  ELSE Finish(c, failed, "KEGGAPIError")
             ELSE Finish(c, r, "returned")
    /\ UNCHANGED <<db, redis, now, jobVars, lastCall, calls, calc,
                   serviceVars, apiVars, client,
                   last_request_time, rate_limit_lock, plan, remote, clientLog>>

\* client.get answers with a status code or raises httpx.RequestError
Response(c) ==
    /\ co[c].pc = "get"
    /\ \E st \in remote :
         LET r == [co[c] EXCEPT !.last_status = st]
             failed == [r EXCEPT !.seen = @ \cup {st}]
             retry == [failed EXCEPT
                       !.pc = "backoff",
                       !.sleeps = Append(@, BackoffDelay(r.attempt)),
                       !.wake = now + BackoffDelay(r.attempt)]
         IN  IF st # REQUEST_ERROR /\ st \in {403, 429}
             THEN IF r.attempt < r.retries - 1
                  THEN co' = [co EXCEPT ![c] = retry]
                  ELSE Finish(c, failed, "KEGGRateLimitError")
             ELSE IF st = REQUEST_ERROR \/ st >= 400
             THEN IF r.attempt < r.retries - 1
                  THEN co' = [co EXCEPT ![c] = retry]
                  ELSE Finish(c, failed, "KEGGAPIError")
             ELSE Finish(c, r, "returned")
    /\ UNCHANGED <<db, redis, now, jobVars, lastCall, calls, calc,
                   serviceVars, apiVars, client,
                   last_request_time, rate_limit_lock, plan, remote, clientLog>>

\* the loop variable not advancing
BackoffWakeSameAttempt(c) ==
    /\ co[c].pc = "backoff"
    /\ now >= co[c].wake
    /\ IssueGet(c, co[c], clientLog)
    /\ UNCHANGED <<db, redis, now, jobVars, lastCall, calls, calc,
                   serviceVars, apiVars, client,
                   last_request_time, rate_limit_lock, plan, remote>>

\* asyncio.sleep(delay) is over: `continue` starts the next attempt
BackoffWake(c) ==
    /\ co[c].pc = "backoff"
    /\ now >= co[c].wake
    /\ IssueGet(c, [co[c] EXCEPT !.attempt = @ + 1], clientLog)
    /\ UNCHANGED <<db, redis, now, jobVars, lastCall, calls, calc,
                   serviceVars, apiVars, client,
                   last_request_time, rate_limit_lock, plan, remote>>

Sleeping == {c \in Coroutines : co[c].pc \in {"rl_sleep", "backoff"}}

\* instants at which a sleeper is due or the rate limit stops delaying
Due ==
    {co[c].wake : c \in Sleeping}
      \cup (IF last_request_time = None THEN {}
            ELSE {last_request_time[1] + RATE_LIMIT_DELAY})

\* the event loop's clock advances: it is observed one tick before each due
\* instant and at each due instant
ClientTick ==
    /\ \E t \in Due \cup {d - 1 : d \in Due} :
         /\ t > now
         /\ t <= MaxTime
         /\ now' = t
    /\ UNCHANGED <<db, redis, jobVars, lastCall, calls, calc, clientVars,
                   serviceVars, apiVars>>

\* the clock reaches the time at which the next sleeper is due
SleepElapses ==
    /\ \E c \in Sleeping :
         /\ co[c].wake > now
         /\ \A d \in Sleeping : co[c].wake <= co[d].wake
         /\ now' = co[c].wake
    /\ UNCHANGED <<db, redis, jobVars, lastCall, calls, calc, clientVars,
                   serviceVars, apiVars>>

\* _request calls of the coroutines: n[c] calls with the default `retries`
DefaultPlan(n) == [c \in Coroutines |-> [i \in 1..n[c] |-> MAX_RETRIES]]

RECURSIVE Sum(_, _)
Sum(f, k) == IF k = 0 THEN 0 ELSE f[k] + Sum(f, k - 1)

\* concurrent use of one instance inside `async with KEGGClient()`
ClientInit ==
    /\ JobIdle
    /\ ApiUnused
    /\ ServiceUnused
    /\ db = FreshDb(TRUE)
    /\ redis = <<>>
    /\ now = 0
    /\ lastCall = NoCall
    /\ calls = 0
    /\ calc = NoCalc
    /\ client = TRUE
    /\ last_request_time = None
    /\ rate_limit_lock = 0
    /\ co = [c \in Coroutines |-> IdleCo]
    /\ \E n \in [Coroutines -> 0..MaxRequests] :
         /\ Sum(n, MaxCoroutines) \in 1..MaxRequests
         /\ \A c \in Coroutines : c > 1 => n[c] <= n[c - 1]
         /\ plan = DefaultPlan(n)
    /\ remote = Responses
    /\ clientLog = NoClientLog

ClientNext ==
    \/ \E c \in Coroutines : RequestStart(c)
    \/ \E c \in Coroutines : LockAcquired(c)
    \/ \E c \in Coroutines : RateLimitWake(c)
    \/ \E c \in Coroutines : Response(c)
    \/ \E c \in Coroutines : BackoffWake(c)
    \/ ClientTick

SpecClient == ClientInit /\ [][ClientNext]_vars

\* one _request call with any `retries` argument and any answers
RetryInit ==
    /\ JobIdle
    /\ ApiUnused
    /\ ServiceUnused
    /\ db = FreshDb(TRUE)
    /\ redis = <<>>
    /\ now = 0
    /\ lastCall = NoCall
    /\ calls = 0
    /\ calc = NoCalc
    /\ client \in BOOLEAN
    /\ last_request_time = None
    /\ rate_limit_lock = 0
    /\ co = [c \in Coroutines |-> IdleCo]
    /\ \E retries \in 0..MAX_RETRIES :
         plan = [c \in Coroutines |-> IF c = 1 THEN <<retries>> ELSE <<>>]
    /\ remote = Responses
    /\ clientLog = NoClientLog

RetryNext ==
    \/ RequestStart(1)
    \/ Response(1)
    \/ BackoffWake(1)
    \/ SleepElapses

SpecRetry == RetryInit /\ [][RetryNext]_vars

(***************************************************************************)
(* OrthologService (backend/app/services/ortholog_service.py)              *)
(*                                                                         *)
(* One call of find_orthologs_for_organism: the organism-wide KO fetch,    *)
(* one find_with_semaphore coroutine per gene run by asyncio.gather, and   *)
(* the collection of the results.  A call of the data client is seen by    *)
(* its outcome: a value, KEGGAPIError (retries exhausted), or another      *)
(* exception.                                                              *)
(***************************************************************************)
\* MODEL_ORGANISMS.get(org, 0)
MODEL_ORGANISMS(org) ==
    CASE org = "hsa" -> 100
      [] org = "mmu" -> 95
      [] org = "dme" -> 90
      [] org = "cel" -> 90
      [] org = "sce" -> 85
      [] org = "eco" -> 80
      [] org = "bsu" -> 75
      [] org = "ath" -> 80
      [] org = "rno" -> 90
      [] org = "dre" -> 85
      [] OTHER -> 0

\* _calculate_ortholog_score
calculate_ortholog_score(source_org, candidate_org) ==
    MODEL_ORGANISMS(candidate_org)
      + (IF source_org = "eco" /\ candidate_org = "hsa" THEN 10 ELSE 0)
      + (IF /\ source_org \in {"eco", "bsu"}
            /\ candidate_org \in {"hsa", "mmu", "dme"}
         THEN 5 ELSE 0)

\* a gene id "org:gene" of a group-membership response, as the text before
\* the colon, the colon, and the text after it
Candidate(org, gene) == <<org, ":", gene>>

\* an entry of the response without a colon
Malformed == <<"junk">>

\* ':' in candidate_gene_id
HasColon(candidate_gene_id) ==
    \E k \in 1..Len(candidate_gene_id) : candidate_gene_id[k] = ":"

\* candidate_gene_id.split(':')[0]
CandidateOrg(candidate_gene_id) == candidate_gene_id[1]

\* OrthologResult(gene_id, ortholog_gene_id, ..., ko_id, confidence, method);
\* ortholog_species and ortholog_name are functions of ortholog_gene_id
ServiceResult(gene_id, ortholog_gene_id, ko_id, confidence, method) ==
    [gene_id |-> gene_id, ortholog_gene_id |-> ortholog_gene_id,
     ko_id |-> ko_id, confidence |-> confidence, method |-> method]

\* OrthologResult.has_ortholog
HasOrtholog(r) == r.ortholog_gene_id # None

\* no entry is skipped
ForeignUnfiltered(genes_in_ko, exclude_organism) == genes_in_ko

\* lines 362-385: the entries that have a colon and whose organism is not
\* exclude_organism, in the order of the response
RECURSIVE Foreign(_, _)
Foreign(genes_in_ko, exclude_organism) ==
    IF genes_in_ko = <<>> THEN <<>>
    ELSE IF \/ ~HasColon(Head(genes_in_ko))
            \/ CandidateOrg(Head(genes_in_ko)) = exclude_organism
         THEN Foreign(Tail(genes_in_ko), exclude_organism)
         ELSE <<Head(genes_in_ko)>>
                \o Foreign(Tail(genes_in_ko), exclude_organism)

\* list.sort(key=score, reverse=True) is a stable insertion of the elements
\* from left to right: x goes behind every element whose score is at least
\* its own
RECURSIVE InsertByScore(_, _, _)
InsertByScore(x, sorted, source_org) ==
    IF sorted = <<>> THEN <<x>>
    ELSE IF calculate_ortholog_score(source_org, CandidateOrg(Head(sorted)))
              >= calculate_ortholog_score(source_org, CandidateOrg(x))
         THEN <<Head(sorted)>> \o InsertByScore(x, Tail(sorted), source_org)
         ELSE <<x>> \o sorted

\* candidates.sort(key=lambda x: x[2], reverse=True)
RECURSIVE SortByScore(_, _)
SortByScore(candidates, source_org) ==
    IF candidates = <<>> THEN <<>>
    ELSE InsertByScore(candidates[Len(candidates)],
                       SortByScore(SubSeq(candidates, 1, Len(candidates) - 1),
                                   source_org),
                       source_org)

\* the list from its last element to its first
Reversed(seq) == [k \in 1..Len(seq) |-> seq[Len(seq) + 1 - k]]

\* the sort keeps the last of the candidates with equal scores in front
BestCandidateLastOfTies(candidates, source_org) ==
    Head(SortByScore(Reversed(candidates), source_org))

\* candidates.sort(...); candidates[0]
BestCandidate(candidates, source_org) ==
    Head(SortByScore(candidates, source_org))

\* _find_best_ortholog_in_ko once get_organisms_by_ko has returned
\* genes_in_ko: <<>> for None, <<result>> otherwise
find_best_ortholog_in_ko(gene_id, ko_id, exclude_organism, genes_in_ko) ==
    LET candidates == Foreign(genes_in_ko, exclude_organism)
    IN  IF candidates = <<>> THEN None
        ELSE LET b == BestCandidate(candidates, exclude_organism)
             IN  Some(ServiceResult(gene_id, Some(b), Some(ko_id),
                                    calculate_ortholog_score(exclude_organism,
                                                             CandidateOrg(b)),
                                    "KEGG_KO"))

\* entries a response of get_organisms_by_ko can hold: the source gene, genes
\* of model organisms (dme and rno have the same weight), a gene of an
\* organism without a weight, and an entry without a colon
GroupEntries ==
    {Candidate("eco", 7), Candidate("mmu", 8), Candidate("hsa", 9),
     Candidate("dme", 10), Candidate("rno", 11), Candidate("xyz", 12),
     Malformed}

\* organisms whose genes are resolved: a bacterium and a eukaryote
SourceOrgs == {"eco", "mmu"}

\* the sequences over S of length at most n
SeqsUpTo(S, n) == UNION {[1..k -> S] : k \in 0..n}

\* _find_best_ortholog_in_ko is called for gene 7 of the source organism and
\* get_organisms_by_ko has answered
SelectInit ==
    /\ JobIdle
    /\ ApiUnused
    /\ ClientUnused
    /\ db = FreshDb(TRUE)
    /\ redis = <<>>
    /\ now = 0
    /\ lastCall = NoCall
    /\ calls = 0
    /\ calc = NoCalc
    /\ genes = <<>>
    /\ ko_mappings = None
    /\ tasks = <<>>
    /\ semaphore = 0
    /\ service = NoService
    /\ selection \in
         {[pc |-> "called", exclude_organism |-> src, genes_in_ko |-> g,
           ortholog |-> None] :
            src \in SourceOrgs, g \in SeqsUpTo(GroupEntries, MaxGroup)}

\* lines 356-413: filter, score, sort, return
SelectBest ==
    /\ selection.pc = "called"
    /\ selection' =
         [selection EXCEPT
          !.pc = "returned",
          !.ortholog = find_best_ortholog_in_ko(7, "K1",
                                                selection.exclude_organism,
                                                selection.genes_in_ko)]
    /\ UNCHANGED <<db, redis, now, jobVars, lastCall, calls, calc, clientVars,
                   apiVars, genes, ko_mappings, tasks, semaphore, service>>

SelectNext == SelectBest

SpecSelect == SelectInit /\ [][SelectNext]_vars

\* KO ids a gene can be assigned
KoLists == {<<>>, <<"K1">>, <<"K1", "K2">>}

\* answers of get_organisms_by_ko: no gene, only genes of the source
\* organism, a foreign gene after a gene of the source organism, two
\* foreign genes with the better one last
GroupResponses ==
    {<<>>,
     <<Candidate("eco", 7)>>,
     <<Candidate("eco", 7), Candidate("mmu", 8)>>,
     <<Candidate("mmu", 8), Candidate("hsa", 9)>>}

\* what a coroutine was answered by get_organisms_by_ko (history)
Answered(genes_in_ko) == [outcome |-> "list", genes_in_ko |-> genes_in_ko]
Failed(type) == [outcome |-> type, genes_in_ko |-> <<>>]

NewTask ==
    [pc |-> "created", ko_i |-> 0, result |-> None, raised |-> "none",
     seen |-> <<>>]

\* find_orthologs_for_organism is called with the first n genes of the
\* organism
BatchLists == {[k \in 1..n |-> k] : n \in 0..MaxBatch}

ServiceInit ==
    /\ JobIdle
    /\ ApiUnused
    /\ ClientUnused
    /\ db = FreshDb(TRUE)
    /\ redis = <<>>
    /\ now = 0
    /\ lastCall = NoCall
    /\ calls = 0
    /\ calc = NoCalc
    /\ genes \in BatchLists
    /\ ko_mappings = None
    /\ tasks = <<>>
    /\ semaphore = 0
    /\ service = [NoService EXCEPT !.pc = "get_ko_mappings"]
    /\ selection = NoSelection

\* lines 151-173: the KO fetch, the log line that divides by len(genes), the
\* semaphore and the coroutines handed to asyncio.gather
GetKoMappings ==
    /\ service.pc = "get_ko_mappings"
    /\ \/ /\ \E m \in [1..Len(genes) -> KoLists] : ko_mappings' = Some(m)
          /\ IF Len(genes) = 0
             THEN /\ service' = [service EXCEPT
                                 !.pc = "raised",
                                 !.exception = "ZeroDivisionError"]
                  /\ UNCHANGED <<tasks, semaphore>>
             ELSE /\ service' = [service EXCEPT !.pc = "gather"]
                  /\ tasks' = [i \in 1..Len(genes) |-> NewTask]
                  /\ semaphore' = service.permits
       \/ /\ service' = [service EXCEPT
                          !.pc = "raised", !.exception = "KEGGAPIError"]
          /\ UNCHANGED <<ko_mappings, tasks, semaphore>>
    /\ UNCHANGED <<db, redis, now, jobVars, lastCall, calls, calc, clientVars,
                   apiVars, selection, genes>>

\* KO ids of the gene at position i
KoIds(i) == ko_mappings[1][i]

\* the coroutine at position i ends with a result and keeps its permit
TaskReturnsKeepsPermit(i, result, sem, obs) ==
    /\ tasks' = [tasks EXCEPT ![i] = [@ EXCEPT !.pc = "done",
                                               !.result = Some(result),
                                               !.seen = obs]]
    /\ semaphore' = sem

\* the coroutine at position i ends with a result; leaving `async with
\* semaphore` gives the permit back (sem: free permits while it is held,
\* obs: the answers the coroutine has had)
TaskReturns(i, result, sem, obs) ==
    /\ tasks' = [tasks EXCEPT ![i] = [@ EXCEPT !.pc = "done",
                                               !.result = Some(result),
                                               !.seen = obs]]
    /\ semaphore' = sem + 1

\* the final result names the KO id looked up last
NextKoReportsLast(i, k, sem, obs) ==
    IF k < Len(KoIds(i))
    THEN /\ tasks' = [tasks EXCEPT ![i] = [@ EXCEPT !.pc = "lookup",
                                                    !.ko_i = k + 1,
                                                    !.seen = obs]]
         /\ semaphore' = sem
    ELSE TaskReturns(i, ServiceResult(genes[i], None, Some(KoIds(i)[k]), 0,
                                      "KEGG_KO_NO_ORTHOLOG"), sem, obs)

\* find_ortholog_for_gene after the lookup of the k-th KO id found nothing:
\* the next KO id is looked up, or no KO id is left
NextKo(i, k, sem, obs) ==
    IF k < Len(KoIds(i))
    THEN /\ tasks' = [tasks EXCEPT ![i] = [@ EXCEPT !.pc = "lookup",
                                                    !.ko_i = k + 1,
                                                    !.seen = obs]]
         /\ semaphore' = sem
    ELSE TaskReturns(i, ServiceResult(genes[i], None, Some(KoIds(i)[1]), 0,
                                      "KEGG_KO_NO_ORTHOLOG"), sem, obs)

\* find_with_semaphore holds a permit: find_ortholog_for_gene runs up to its
\* first await
Resolve(i, sem) ==
    IF KoIds(i) = <<>>
    THEN TaskReturns(i, ServiceResult(genes[i], None, None, 0,
                                      "KEGG_KO_NO_ASSIGNMENT"), sem, <<>>)
    ELSE /\ tasks' = [tasks EXCEPT ![i] = [@ EXCEPT !.pc = "lookup",
                                                    !.ko_i = 1]]
         /\ semaphore' = sem

\* the coroutine enters find_ortholog_for_gene without waiting for a permit
TaskStartUnlimited(i) ==
    /\ service.pc = "gather"
    /\ i <= Len(tasks)
    /\ tasks[i].pc = "created"
    /\ Resolve(i, semaphore - 1)
    /\ UNCHANGED <<db, redis, now, jobVars, lastCall, calls, calc, clientVars,
                   apiVars, selection, genes, ko_mappings, service>>

\* the event loop runs the coroutine at position i for the first time
TaskStart(i) ==
    /\ service.pc = "gather"
    /\ i <= Len(tasks)
    /\ tasks[i].pc = "created"
    /\ IF semaphore = 0
       THEN /\ tasks' = [tasks EXCEPT ![i] = [@ EXCEPT !.pc = "waiting"]]
            /\ UNCHANGED semaphore
       ELSE Resolve(i, semaphore - 1)
    /\ UNCHANGED <<db, redis, now, jobVars, lastCall, calls, calc, clientVars,
                   apiVars, selection, genes, ko_mappings, service>>

\* a coroutine waiting for the semaphore gets a permit
TaskAcquire(i) ==
    /\ service.pc = "gather"
    /\ i <= Len(tasks)
    /\ tasks[i].pc = "waiting"
    /\ semaphore > 0
    /\ Resolve(i, semaphore - 1)
    /\ UNCHANGED <<db, redis, now, jobVars, lastCall, calls, calc, clientVars,
                   apiVars, selection, genes, ko_mappings, service>>

\* a group that yields an ortholog does not end the loop while KO ids are
\* left: the ortholog of the last group that yields one is returned
LookupResponseTriesAll(i) ==
    /\ service.pc = "gather"
    /\ i <= Len(tasks)
    /\ tasks[i].pc = "lookup"
    /\ \/ \E genes_in_ko \in GroupResponses :
            LET ortholog == find_best_ortholog_in_ko(
                              genes[i], KoIds(i)[tasks[i].ko_i],
                              ORGANISM_CODE, genes_in_ko)
                obs == Append(tasks[i].seen, Answered(genes_in_ko))
            IN  IF ortholog # None /\ tasks[i].ko_i = Len(KoIds(i))
                THEN TaskReturns(i, ortholog[1], semaphore, obs)
                ELSE NextKo(i, tasks[i].ko_i, semaphore, obs)
       \/ NextKo(i, tasks[i].ko_i, semaphore,
                 Append(tasks[i].seen, Failed("KEGGAPIError")))
       \/ /\ tasks' = [tasks EXCEPT ![i] =
                         [@ EXCEPT !.pc = "done",
                                   !.raised = "Exception",
                                   !.seen = Append(@, Failed("Exception"))]]
          /\ semaphore' = semaphore + 1
    /\ UNCHANGED <<db, redis, now, jobVars, lastCall, calls, calc, clientVars,
                   apiVars, selection, genes, ko_mappings, service>>

\* lines 297-310 of find_ortholog_for_gene: get_organisms_by_ko answers for
\* the KO id under lookup, raises KEGGAPIError (caught: `continue`), or
\* raises something else (the coroutine ends with that exception)
LookupResponse(i) ==
    /\ service.pc = "gather"
    /\ i <= Len(tasks)
    /\ tasks[i].pc = "lookup"
    /\ \/ \E genes_in_ko \in GroupResponses :
            LET ortholog == find_best_ortholog_in_ko(
                              genes[i], KoIds(i)[tasks[i].ko_i],
                              ORGANISM_CODE, genes_in_ko)
                obs == Append(tasks[i].seen, Answered(genes_in_ko))
            IN  IF ortholog # None
                THEN TaskReturns(i, ortholog[1], semaphore, obs)
                ELSE NextKo(i, tasks[i].ko_i, semaphore, obs)
       \/ NextKo(i, tasks[i].ko_i, semaphore,
                 Append(tasks[i].seen, Failed("KEGGAPIError")))
       \/ /\ tasks' = [tasks EXCEPT ![i] =
                         [@ EXCEPT !.pc = "done",
                                   !.raised = "Exception",
                                   !.seen = Append(@, Failed("Exception"))]]
          /\ semaphore' = semaphore + 1
    /\ UNCHANGED <<db, redis, now, jobVars, lastCall, calls, calc, clientVars,
                   apiVars, selection, genes, ko_mappings, service>>

\* asyncio.gather without return_exceptions: the first exception of a
\* coroutine leaves the call
GatheredAborts ==
    /\ service.pc = "gather"
    /\ \A i \in 1..Len(tasks) : tasks[i].pc = "done"
    /\ IF \E i \in 1..Len(tasks) : tasks[i].raised # "none"
       THEN service' = [service EXCEPT !.pc = "raised",
                                       !.exception = "Exception"]
       ELSE service' = [service EXCEPT
                        !.pc = "returned",
                        !.results = [i \in 1..Len(tasks) |->
                                       tasks[i].result[1]]]
    /\ UNCHANGED <<db, redis, now, jobVars, lastCall, calls, calc, clientVars,
                   apiVars, selection, genes, ko_mappings, tasks, semaphore>>

\* lines 175-203: asyncio.gather(..., return_exceptions=True) is complete;
\* exceptions become 'ERROR' results, the summary is logged, the list is
\* returned
Gathered ==
    /\ service.pc = "gather"
    /\ \A i \in 1..Len(tasks) : tasks[i].pc = "done"
    /\ service' = [service EXCEPT
                   !.pc = "returned",
                   !.results =
                     [i \in 1..Len(tasks) |->
                        IF tasks[i].raised # "none"
                        THEN ServiceResult(genes[i], None, None, 0, "ERROR")
                        ELSE tasks[i].result[1]]]
    /\ UNCHANGED <<db, redis, now, jobVars, lastCall, calls, calc, clientVars,
                   apiVars, selection, genes, ko_mappings, tasks, semaphore>>

ServiceNext ==
    \/ GetKoMappings
    \/ \E i \in 1..MaxBatch : TaskStart(i)
    \/ \E i \in 1..MaxBatch : TaskAcquire(i)
    \/ \E i \in 1..MaxBatch : LookupResponse(i)
    \/ Gathered

SpecService == ServiceInit /\ [][ServiceNext]_vars

\* the event loop runs every coroutine that is ready, and every call of the
\* data client ends (bounded retries, request timeout): no step that stays
\* possible is postponed forever
SpecServiceLive == SpecService /\ WF_vars(ServiceNext)

(***************************************************************************)
(* process_organism_job                                                    *)
(*                                                                         *)
(* One action per await of the coroutine, together with the synchronous    *)
(* code that follows it.  Every await on the durable store, the progress   *)
(* store or the data client either succeeds or raises.                     *)
(***************************************************************************)
\* lengths of str(e) for the exceptions of the collaborators
ExcLens == {10, 2000}

\* Gene(organism_id=..., name=..., ortholog_*=None)
Gene(name) == [name |-> name, ortholog_name |-> None]

RowNames(rows) == {r.name : r \in BagToSet(rows)}

\* the job can start before or after the start endpoint has committed
JobInit ==
    /\ JobIdle
    /\ ApiUnused
    /\ ClientUnused
    /\ ServiceUnused
    /\ db \in {FreshDb(TRUE), FreshDb(FALSE), EnqueuedDb}
    /\ redis = <<>>
    /\ now = 0
    /\ lastCall = NoCall
    /\ calls = 0
    /\ calc = NoCalc

\* stage of the orchestrator a position belongs to
StageOf(p) ==
    CASE p \in {"load", "commit_pending", "tracker_start"} -> "load"
      [] p \in {"upd_fetch0", "fetch", "upd_fetch10"} -> "fetch"
      [] p \in {"upd_store10", "select_existing", "store_batch",
                "upd_store15"} -> "store"
      [] p \in {"upd_orth15", "find_orthologs", "select_genes", "orth_loop",
                "orth_update", "orth_commit", "final_commit"} -> "resolve"
      [] OTHER -> "finalize"

\* an exception of the given type is raised inside the try block
Raise(type, len) ==
    /\ exception' = <<[type |-> type, len |-> len, stage |-> StageOf(pc)]>>
    /\ pc' = "except"

\* session.commit() succeeded: the session's view becomes the committed state
Committed(org, rows) ==
    [db EXCEPT !.status = org.status, !.job_id = org.job_id,
               !.job_error = org.job_error, !.genes = rows]

\* session.commit() / session.execute() raised: the transaction is rolled
\* back and the session's objects fall back to the committed state
RolledBack(org) ==
    [org EXCEPT !.status = db.status, !.job_id = db.job_id,
                !.job_error = db.job_error]

\* the tracker wrote data under the key: one more stage value was written
Logged(stage) == Append(stageLog, stage)

\* the locals of the stages are dead: nothing reads them any more
StageLocalsDropped ==
    /\ genes_data' = <<>>
    /\ total_genes' = 0
    /\ batch_i' = 0
    /\ ortholog_results' = <<>>
    /\ gene_lookup' = <<>>
    /\ result_i' = 0
    /\ genes_processed' = 0
    /\ genes_with_orthologs' = 0

\* the coroutine has ended: `async with AsyncSessionLocal()` closes the
\* session, which discards what was not committed
SessionClosed ==
    /\ organism' = NoOrganism
    /\ session_genes' = EmptyBag

\* arq delivers the job, at most `deliveries` times
Deliver(deliveries) ==
    /\ pc \in {"idle", "done"}
    /\ runs < deliveries
    /\ runs' = runs + 1
    /\ pc' = "load"
    /\ organism' = NoOrganism
    /\ session_genes' = db.genes
    /\ genes_data' = <<>>
    /\ total_genes' = 0
    /\ batch_i' = 0
    /\ ortholog_results' = <<>>
    /\ gene_lookup' = <<>>
    /\ result_i' = 0
    /\ genes_processed' = 0
    /\ genes_with_orthologs' = 0
    /\ exception' = <<>>
    /\ outcome' = <<>>
    /\ stageLog' = <<>>
    /\ completeCommitted' = FALSE
    /\ UNCHANGED <<db, redis, now, lastCall, calls, calc, clientVars,
                   serviceVars, apiVars>>

\* arq delivers the job (again)
JobBegin == Deliver(MaxRuns)

\* arq delivers the job for the first time
JobBeginFirst == Deliver(1)

\* lines 201-219: select the organism, then mark it pending in the session
LoadOrganism ==
    /\ pc = "load"
    /\ \/ /\ db.exists
          /\ organism' = [state |-> "loaded", status |-> "pending",
                          job_id |-> Some(JOB_ID), job_error |-> None]
          /\ pc' = "commit_pending"
          /\ UNCHANGED exception
       \/ /\ ~db.exists
          /\ organism' = [NoOrganism EXCEPT !.state = "none"]
          /\ Raise("ValueError", 10)
       \/ /\ Raise("DBError", 10)
          /\ UNCHANGED organism
    /\ UNCHANGED <<db, redis, now, runs, session_genes, genes_data,
                   total_genes, batch_i, ortholog_results, gene_lookup,
                   result_i, genes_processed, genes_with_orthologs, outcome,
                   stageLog, completeCommitted, lastCall, calls, calc, clientVars,
                   serviceVars, apiVars>>

\* line 220: commit status='pending'
CommitPending ==
    /\ pc = "commit_pending"
    /\ \/ /\ db' = Committed(organism, session_genes)
          /\ pc' = "tracker_start"
          /\ UNCHANGED <<organism, session_genes, exception>>
       \/ /\ \E n \in ExcLens : Raise("DBError", n)
          /\ organism' = RolledBack(organism)
          /\ session_genes' = db.genes
          /\ UNCHANGED db
    /\ UNCHANGED <<redis, now, runs, genes_data, total_genes, batch_i,
                   ortholog_results, gene_lookup, result_i, genes_processed,
                   genes_with_orthologs, outcome, stageLog, completeCommitted,
                   lastCall, calls, calc, clientVars,
                   serviceVars, apiVars>>

\* lines 223-227: tracker.start
JobTrackerStart ==
    /\ pc = "tracker_start"
    /\ \/ /\ redis' = Setex(TrackerStart(ORGANISM_ID, ORGANISM_CODE, 0, now),
                            now)
          /\ stageLog' = Logged(STAGE_FETCHING_GENES)
          /\ pc' = "upd_fetch0"
          /\ UNCHANGED exception
       \/ /\ Raise("RedisError", 10)
          /\ UNCHANGED <<redis, stageLog>>
    /\ UNCHANGED <<db, now, runs, organism, session_genes, genes_data,
                   total_genes, batch_i, ortholog_results, gene_lookup,
                   result_i, genes_processed, genes_with_orthologs, outcome,
                   completeCommitted, lastCall, calls, calc, clientVars,
                   serviceVars, apiVars>>

\* a tracker.update(stage, progress, ...) of the job, followed by a move to
\* position next
JobUpdate(at, next, stage, progress, gp, gwo, tg) ==
    /\ pc = at
    /\ \/ /\ redis' = Setex(TrackerUpdate(redis, stage, progress, gp, gwo,
                                         None, tg, now), now)
          /\ stageLog' = Logged(stage)
          /\ pc' = next
          /\ UNCHANGED exception
       \/ /\ Raise("RedisError", 10)
          /\ UNCHANGED <<redis, stageLog>>
    /\ UNCHANGED <<db, now, runs, organism, session_genes, genes_data,
                   total_genes, batch_i, ortholog_results, gene_lookup,
                   result_i, genes_processed, genes_with_orthologs, outcome,
                   completeCommitted, lastCall, calls, calc, clientVars,
                   serviceVars, apiVars>>

\* lines 232-235
UpdFetch0 ==
    JobUpdate("upd_fetch0", "fetch", STAGE_FETCHING_GENES, PctInt(0),
              None, None, None)

\* lines 239-250: list_organism_genes
FetchGenes ==
    /\ pc = "fetch"
    /\ \/ /\ \E gl \in GeneLists :
               /\ genes_data' = gl
               /\ total_genes' = Len(gl)
          /\ pc' = "upd_fetch10"
          /\ UNCHANGED exception
       \/ /\ \E n \in ExcLens : Raise("KEGGAPIError", n)
          /\ UNCHANGED <<genes_data, total_genes>>
    /\ UNCHANGED <<db, redis, now, runs, organism, session_genes, batch_i,
                   ortholog_results, gene_lookup, result_i, genes_processed,
                   genes_with_orthologs, outcome, stageLog, completeCommitted,
                   lastCall, calls, calc, clientVars,
                   serviceVars, apiVars>>

\* lines 253-257
UpdFetch10 ==
    JobUpdate("upd_fetch10", "upd_store10", STAGE_FETCHING_GENES, PctInt(10),
              None, None, Some(total_genes))

\* lines 262-266, written out of order: the stage of a later step
UpdStore10_late_stage ==
    JobUpdate("upd_store10", "select_existing", STAGE_FINDING_ORTHOLOGS,
              PctInt(10), None, None, Some(total_genes))

\* lines 262-266
UpdStore10 ==
    JobUpdate("upd_store10", "select_existing", STAGE_STORING_GENES,
              PctInt(10), None, None, Some(total_genes))

\* gene_objects[i:i + BATCH_SIZE] (i is 0-based)
Batch(i) ==
    SetToBag({Gene(genes_data[i + k]) :
                k \in 1..Min(BATCH_SIZE, Len(genes_data) - i)})

\* lines 279-314: the statement that precedes the insert is a SELECT of the
\* organism's genes (no row is removed); then gene_objects is built and the
\* first batch is added to the session
SelectExisting ==
    /\ pc = "select_existing"
    /\ \/ /\ batch_i' = 0
          /\ IF Len(genes_data) = 0
             THEN /\ pc' = "upd_store15"
                  /\ UNCHANGED session_genes
             ELSE /\ pc' = "store_batch"
                  /\ session_genes' = session_genes (+) Batch(0)
          /\ UNCHANGED <<exception, organism>>
       \/ /\ \E n \in ExcLens : Raise("DBError", n)
          /\ organism' = RolledBack(organism)
          /\ session_genes' = db.genes
          /\ UNCHANGED batch_i
    /\ UNCHANGED <<db, redis, now, runs, genes_data, total_genes,
                   ortholog_results, gene_lookup, result_i, genes_processed,
                   genes_with_orthologs, outcome, stageLog, completeCommitted,
                   lastCall, calls, calc, clientVars,
                   serviceVars, apiVars>>

\* lines 312-318: commit the batch, then add the next one
StoreBatch ==
    /\ pc = "store_batch"
    /\ \/ /\ db' = Committed(organism, session_genes)
          /\ batch_i' = batch_i + BATCH_SIZE
          /\ IF batch_i + BATCH_SIZE < Len(genes_data)
             THEN /\ session_genes' = session_genes (+) Batch(batch_i + BATCH_SIZE)
                  /\ pc' = "store_batch"
             ELSE /\ pc' = "upd_store15"
                  /\ UNCHANGED session_genes
          /\ UNCHANGED <<exception, organism>>
       \/ /\ \E n \in ExcLens : Raise("DBError", n)
          /\ organism' = RolledBack(organism)
          /\ session_genes' = db.genes
          /\ UNCHANGED <<db, batch_i>>
    /\ UNCHANGED <<redis, now, runs, genes_data, total_genes,
                   ortholog_results, gene_lookup, result_i, genes_processed,
                   genes_with_orthologs, outcome, stageLog, completeCommitted,
                   lastCall, calls, calc, clientVars,
                   serviceVars, apiVars>>

\* lines 323-328
UpdStore15 ==
    JobUpdate("upd_store15", "upd_orth15", STAGE_STORING_GENES, PctInt(15),
              Some(0), Some(0), None)

\* lines 335-338
UpdOrth15 ==
    JobUpdate("upd_orth15", "find_orthologs", STAGE_FINDING_ORTHOLOGS,
              PctInt(15), None, None, None)

\* OrthologResult as far as the job reads it; has_ortholog is
\* `ortholog_gene_id is not None`, which only a 'KEGG_KO' result satisfies
OrthologResult(gene_id, method) ==
    [gene_id |-> gene_id, has_ortholog |-> method = "KEGG_KO",
     method |-> method]

\* outcomes of a gene in the list find_orthologs_for_organism returns: an
\* ortholog, no ortholog, or the result that replaces an exception
ResultMethods == {"KEGG_KO", "KEGG_KO_NO_ORTHOLOG", "ERROR"}

\* the outcomes the job can tell apart: it reads has_ortholog and never
\* method, so an 'ERROR' result is a result without an ortholog to it
MethodsRead == {"KEGG_KO", "KEGG_KO_NO_ORTHOLOG"}

\* lines 353-361: find_orthologs_for_organism.  It raises when the
\* organism-wide link_genes_to_ko call fails (ortholog_service.py:151) and
\* when genes is empty (division by len(genes), ortholog_service.py:153-156);
\* otherwise it returns one result per gene, in order, each with one of the
\* given outcomes
FindOrthologsAmong(methods) ==
    /\ pc = "find_orthologs"
    /\ \/ /\ Len(genes_data) > 0
          /\ \E method \in [1..Len(genes_data) -> methods] :
               ortholog_results' =
                 [k \in 1..Len(genes_data) |->
                    OrthologResult(genes_data[k], method[k])]
          /\ pc' = "select_genes"
          /\ UNCHANGED exception
       \/ /\ Len(genes_data) = 0
          /\ Raise("ZeroDivisionError", 16)
          /\ UNCHANGED ortholog_results
       \/ /\ \E n \in ExcLens : Raise("KEGGAPIError", n)
          /\ UNCHANGED ortholog_results
    /\ UNCHANGED <<db, redis, now, runs, organism, session_genes, genes_data,
                   total_genes, batch_i, gene_lookup, result_i,
                   genes_processed, genes_with_orthologs, outcome, stageLog,
                   completeCommitted, lastCall, calls, calc, clientVars,
                   serviceVars, apiVars>>

\* lines 353-361, with the results as the job reads them
FindOrthologs == FindOrthologsAmong(MethodsRead)

\* lines 353-361, with the outcome of every gene kept
FindOrthologsAll == FindOrthologsAmong(ResultMethods)

\* {gene.name: gene for gene in db_genes}: one row per name; the SELECT has
\* no ORDER BY, so any row carrying the name can be the one kept
GeneLookups(rows) ==
    {f \in [RowNames(rows) -> BagToSet(rows)] :
       \A n \in RowNames(rows) : f[n].name = n}

\* lines 370-381: select the organism's genes and build gene_lookup
SelectGenes ==
    /\ pc = "select_genes"
    /\ \/ /\ \E f \in GeneLookups(session_genes) : gene_lookup' = f
          /\ result_i' = 0
          /\ genes_processed' = 0
          /\ genes_with_orthologs' = 0
          /\ pc' = IF Len(ortholog_results) = 0 THEN "final_commit"
                   ELSE "orth_loop"
          /\ UNCHANGED <<exception, organism, session_genes>>
       \/ /\ \E n \in ExcLens : Raise("DBError", n)
          /\ organism' = RolledBack(organism)
          /\ session_genes' = db.genes
          /\ UNCHANGED <<gene_lookup, result_i, genes_processed,
                         genes_with_orthologs>>
    /\ UNCHANGED <<db, redis, now, runs, genes_data, total_genes, batch_i,
                   ortholog_results, outcome, stageLog, completeCommitted,
                   lastCall, calls, calc, clientVars,
                   serviceVars, apiVars>>

\* lines 383-405: one iteration of the loop over ortholog_results, up to the
\* test of the update interval
OrthIterate ==
    /\ pc = "orth_loop"
    /\ result_i < Len(ortholog_results)
    /\ LET r == ortholog_results[result_i + 1]
           found == r.gene_id \in DOMAIN gene_lookup
           gp == genes_processed + 1
       IN  /\ result_i' = result_i + 1
           /\ IF ~found
              THEN /\ UNCHANGED <<session_genes, genes_processed,
                                  genes_with_orthologs>>
                   /\ pc' = IF result_i + 1 = Len(ortholog_results)
                            THEN "final_commit" ELSE "orth_loop"
              ELSE /\ session_genes' =
                        IF r.has_ortholog
                        THEN LET row == gene_lookup[r.gene_id]
                             IN  (session_genes (-) SetToBag({row}))
                                   (+) SetToBag({[row EXCEPT
                                          !.ortholog_name = Some("ortholog")]})
                        ELSE session_genes
                   /\ genes_with_orthologs' =
                        IF r.has_ortholog THEN genes_with_orthologs + 1
                        ELSE genes_with_orthologs
                   /\ genes_processed' = gp
                   /\ pc' = IF gp % PROGRESS_UPDATE_INTERVAL = 0
                            THEN "orth_update"
                            ELSE IF result_i + 1 = Len(ortholog_results)
                                 THEN "final_commit" ELSE "orth_loop"
    /\ UNCHANGED <<db, redis, now, runs, organism, genes_data, total_genes,
                   batch_i, ortholog_results, gene_lookup, exception, outcome,
                   stageLog, completeCommitted, lastCall, calls, calc, clientVars,
                   serviceVars, apiVars>>

\* lines 407-418
OrthUpdate ==
    JobUpdate("orth_update", "orth_commit", STAGE_FINDING_ORTHOLOGS,
              calculate_stage_progress(STAGE_FINDING_ORTHOLOGS,
                                       genes_processed, total_genes),
              Some(genes_processed), Some(genes_with_orthologs), None)

\* a session.commit() of the resolve stage, followed by a move to next
ResolveCommit(at, next) ==
    /\ pc = at
    /\ \/ /\ db' = Committed(organism, session_genes)
          /\ pc' = next
          /\ UNCHANGED <<exception, organism, session_genes>>
       \/ /\ \E n \in ExcLens : Raise("DBError", n)
          /\ organism' = RolledBack(organism)
          /\ session_genes' = db.genes
          /\ UNCHANGED db
    /\ UNCHANGED <<redis, now, runs, genes_data, total_genes, batch_i,
                   ortholog_results, gene_lookup, result_i, genes_processed,
                   genes_with_orthologs, outcome, stageLog, completeCommitted,
                   lastCall, calls, calc, clientVars,
                   serviceVars, apiVars>>

\* line 421
OrthCommit ==
    ResolveCommit("orth_commit",
                  IF result_i = Len(ortholog_results) THEN "final_commit"
                  ELSE "orth_loop")

\* lines 424-439: the final commit of the resolve stage; then the statistics
\* are computed and the organism is marked complete in the session
FinalCommit ==
    /\ pc = "final_commit"
    /\ \/ /\ db' = Committed(organism, session_genes)
          /\ organism' = [organism EXCEPT !.status = "complete",
                                          !.job_error = None]
          /\ pc' = "commit_complete"
          /\ UNCHANGED <<exception, session_genes>>
       \/ /\ \E n \in ExcLens : Raise("DBError", n)
          /\ organism' = RolledBack(organism)
          /\ session_genes' = db.genes
          /\ UNCHANGED db
    /\ UNCHANGED <<redis, now, runs, genes_data, total_genes, batch_i,
                   ortholog_results, gene_lookup, result_i, genes_processed,
                   genes_with_orthologs, outcome, stageLog, completeCommitted,
                   lastCall, calls, calc, clientVars,
                   serviceVars, apiVars>>

\* line 440: commit status='complete'
CommitComplete ==
    /\ pc = "commit_complete"
    /\ \/ /\ db' = Committed(organism, session_genes)
          /\ completeCommitted' = TRUE
          /\ pc' = "tracker_complete"
          /\ UNCHANGED <<exception, organism, session_genes>>
       \/ /\ \E n \in ExcLens : Raise("DBError", n)
          /\ organism' = RolledBack(organism)
          /\ session_genes' = db.genes
          /\ UNCHANGED <<db, completeCommitted>>
    /\ UNCHANGED <<redis, now, runs, genes_data, total_genes, batch_i,
                   ortholog_results, gene_lookup, result_i, genes_processed,
                   genes_with_orthologs, outcome, stageLog, lastCall, calls,
                   calc, clientVars,
                   serviceVars, apiVars>>

\* the share of the genes processed
CoveragePercentOfProcessed ==
    IF total_genes > 0 THEN Pct(genes_processed * 100, total_genes)
    ELSE PctInt(0)

\* line 427
CoveragePercent ==
    IF total_genes > 0 THEN Pct(genes_with_orthologs * 100, total_genes)
    ELSE PctInt(0)

\* lines 443-448
FinalStats ==
    [total_genes |-> total_genes,
     genes_with_orthologs |-> genes_with_orthologs,
     coverage_percent |-> Round2(CoveragePercent),
     method |-> "KEGG_KO"]

\* lines 458-465
ReturnValue ==
    [organism_id |-> ORGANISM_ID,
     organism_code |-> ORGANISM_CODE,
     total_genes |-> total_genes,
     genes_with_orthologs |-> genes_with_orthologs,
     coverage_percent |-> CoveragePercent,
     status |-> "complete"]

\* lines 443-465: tracker.complete, then return
JobTrackerComplete ==
    /\ pc = "tracker_complete"
    /\ \/ /\ redis' = TrackerComplete(redis, Some(FinalStats), now)
          /\ stageLog' = IF redis = <<>> THEN stageLog
                         ELSE Logged(STAGE_COMPLETE)
          /\ outcome' = <<[kind |-> "returned", exc |-> NoExc,
                           value |-> Some(ReturnValue)]>>
          /\ pc' = "done"
          /\ StageLocalsDropped
          /\ SessionClosed
          /\ UNCHANGED exception
       \/ /\ Raise("RedisError", 10)
          /\ UNCHANGED <<redis, stageLog, outcome, organism, session_genes,
                         genes_data, total_genes, batch_i, ortholog_results,
                         gene_lookup, result_i, genes_processed,
                         genes_with_orthologs>>
    /\ UNCHANGED <<db, now, runs, completeCommitted, lastCall, calls, calc, clientVars,
                   serviceVars, apiVars>>

\* str(e)
ExcText(e) == [tag |-> e.type, len |-> e.len]

\* lines 470 and 487: error_msg of the except clause that catches e
ErrorMsg(e) ==
    IF e.type = "KEGGAPIError"
    THEN Prefixed("KEGG API error: ", 16, Truncate(ExcText(e), 900))
    ELSE Prefixed("Unexpected error: ", 18, Truncate(ExcText(e), 900))

\* the coroutine ends by raising e
Raised(e) == <<[kind |-> "raised", exc |-> e, value |-> None]>>

\* lines 467-476 and 484-493: the except clause up to its commit.  Setting
\* organism.status raises when organism is None (not found) or was never
\* bound (the SELECT of the organism raised); an exception raised inside
\* the except clause leaves the coroutine
ExceptHandler ==
    /\ pc = "except"
    /\ \/ /\ organism.state = "none"
          /\ outcome' = Raised([type |-> "AttributeError", len |-> 50,
                                stage |-> "except"])
          /\ pc' = "done"
          /\ SessionClosed
          /\ UNCHANGED db
       \/ /\ organism.state = "unbound"
          /\ outcome' = Raised([type |-> "UnboundLocalError", len |-> 50,
                                stage |-> "except"])
          /\ pc' = "done"
          /\ SessionClosed
          /\ UNCHANGED db
       \/ /\ organism.state = "loaded"
          /\ LET org == [organism EXCEPT
                         !.status = "error",
                         !.job_error =
                            Some(Truncate(ErrorMsg(exception[1]), 1000))]
             IN  \/ /\ db' = Committed(org, session_genes)
                    /\ organism' = org
                    /\ pc' = "handler_tracker_error"
                    /\ UNCHANGED <<outcome, session_genes>>
                 \/ /\ \E n \in ExcLens :
                         outcome' = Raised([type |-> "DBError", len |-> n,
                                            stage |-> "except"])
                    /\ pc' = "done"
                    /\ SessionClosed
                    /\ UNCHANGED db
    /\ StageLocalsDropped
    /\ UNCHANGED <<redis, now, runs, exception, stageLog, completeCommitted,
                   lastCall, calls, calc, clientVars,
                   serviceVars, apiVars>>

\* lines 479-482 and 496-499: tracker.error, then re-raise
HandlerTrackerError ==
    /\ pc = "handler_tracker_error"
    /\ \/ /\ redis' = TrackerError(redis, ErrorMsg(exception[1]), now)
          /\ stageLog' = IF redis = <<>> THEN stageLog
                         ELSE Logged(STAGE_ERROR)
          /\ outcome' = Raised(exception[1])
       \/ /\ outcome' = Raised([type |-> "RedisError", len |-> 10,
                                stage |-> "except"])
          /\ UNCHANGED <<redis, stageLog>>
    /\ pc' = "done"
    /\ SessionClosed
    /\ UNCHANGED <<db, now, runs, genes_data, total_genes, batch_i,
                   ortholog_results, gene_lookup, result_i, genes_processed,
                   genes_with_orthologs, exception, completeCommitted,
                   lastCall, calls, calc, clientVars,
                   serviceVars, apiVars>>

Next ==
    \/ JobBegin
    \/ LoadOrganism
    \/ CommitPending
    \/ JobTrackerStart
    \/ UpdFetch0
    \/ FetchGenes
    \/ UpdFetch10
    \/ UpdStore10
    \/ SelectExisting
    \/ StoreBatch
    \/ UpdStore15
    \/ UpdOrth15
    \/ FindOrthologs
    \/ SelectGenes
    \/ OrthIterate
    \/ OrthUpdate
    \/ OrthCommit
    \/ FinalCommit
    \/ CommitComplete
    \/ JobTrackerComplete
    \/ ExceptHandler
    \/ HandlerTrackerError

Init == JobInit

Spec == Init /\ [][Next]_vars

\* the first delivery of the job, with the outcome of every gene kept in the
\* results of find_orthologs_for_organism
FirstRunNext ==
    \/ JobBeginFirst
    \/ LoadOrganism
    \/ CommitPending
    \/ JobTrackerStart
    \/ UpdFetch0
    \/ FetchGenes
    \/ UpdFetch10
    \/ UpdStore10
    \/ SelectExisting
    \/ StoreBatch
    \/ UpdStore15
    \/ UpdOrth15
    \/ FindOrthologsAll
    \/ SelectGenes
    \/ OrthIterate
    \/ OrthUpdate
    \/ OrthCommit
    \/ FinalCommit
    \/ CommitComplete
    \/ JobTrackerComplete
    \/ ExceptHandler
    \/ HandlerTrackerError

SpecFirstRun == JobInit /\ [][FirstRunNext]_vars

\* the worker runs the coroutine until it ends, and every await on a
\* collaborator ends by a value or an exception
SpecFirstRunLive == SpecFirstRun /\ WF_vars(FirstRunNext)

(***************************************************************************)
(* The process endpoints (backend/app/api/processes.py) and the worker     *)
(*                                                                         *)
(* Concurrent start requests, one delete request, and the first delivery   *)
(* of the first job enqueued.  One action per await of a handler.  The     *)
(* delete request is followed while the worker is not inside a run.  A     *)
(* session's commit writes the attributes whose value differs from the     *)
(* value the session loaded.                                               *)
(***************************************************************************)
\* job.job_id of the n-th job arq is given
EnqueuedJobId(n) == IF n = 1 THEN JOB_ID ELSE "job-" \o ToString(n)

ApiResponse(code, job_id) == [code |-> code, job_id |-> job_id]

\* the attributes of the organism a session has loaded
Loaded(d) ==
    [status |-> d.status, job_id |-> d.job_id, job_error |-> d.job_error]

\* the handler of request r has ended with a response
StartEnds(r, code, job_id) ==
    api' = [api EXCEPT !.start[r] =
              [@ EXCEPT !.pc = "done",
                        !.response = ApiResponse(code, job_id)]]

\* the endpoints are called; the organism may not exist
ApiInit ==
    /\ JobIdle
    /\ ApiUnused
    /\ ClientUnused
    /\ ServiceUnused
    /\ db \in {FreshDb(TRUE), FreshDb(FALSE)}
    /\ redis = <<>>
    /\ now = 0
    /\ lastCall = NoCall
    /\ calls = 0
    /\ calc = NoCalc

\* start_processing, lines 236-255: select the organism; not found, or
\* already pending (the stored job id is returned), or go on to enqueue
StartSelect(r) ==
    /\ api.start[r].pc = "idle"
    /\ \/ /\ ~db.exists
          /\ StartEnds(r, 404, None)
       \/ /\ db.exists
          /\ db.status = "pending"
          /\ StartEnds(r, 200, db.job_id)
       \/ /\ db.exists
          /\ db.status # "pending"
          /\ api' = [api EXCEPT !.start[r] =
                       [@ EXCEPT !.pc = "enqueue", !.loaded = Loaded(db)]]
       \/ StartEnds(r, 500, None)
    /\ UNCHANGED <<db, redis, now, jobVars, lastCall, calls, calc, clientVars,
                   serviceVars, enqueued>>

\* start_processing, lines 270-277: arq_pool.enqueue_job
StartEnqueue(r) ==
    /\ api.start[r].pc = "enqueue"
    /\ \/ LET job_id == EnqueuedJobId(Len(enqueued) + 1)
          IN  /\ enqueued' = Append(enqueued, job_id)
              /\ api' = [api EXCEPT !.start[r] =
                           [@ EXCEPT !.pc = "commit",
                                     !.job_id = Some(job_id)]]
       \/ /\ StartEnds(r, 500, None)
          /\ UNCHANGED enqueued
    /\ UNCHANGED <<db, redis, now, jobVars, lastCall, calls, calc, clientVars,
                   serviceVars>>

\* start_processing, lines 283-292: status, job_id and job_error are set on
\* the loaded object and committed
StartCommit(r) ==
    /\ api.start[r].pc = "commit"
    /\ \/ /\ db' = [db EXCEPT
                     !.status = "pending",
                     !.job_id = api.start[r].job_id,
                     !.job_error =
                        IF api.start[r].loaded.job_error # None THEN None
                        ELSE @]
          /\ StartEnds(r, 200, api.start[r].job_id)
       \/ /\ StartEnds(r, 500, None)
          /\ UNCHANGED db
    /\ UNCHANGED <<redis, now, jobVars, lastCall, calls, calc, clientVars,
                   serviceVars, enqueued>>

\* the handler of the delete request has ended with a response
DeleteEnds(code) ==
    api' = [api EXCEPT !.delete =
              [@ EXCEPT !.pc = "done", !.response = ApiResponse(code, None)]]

\* delete_results, lines 466-472: select the organism
DeleteSelect ==
    /\ api.delete.pc = "idle"
    /\ pc \in {"idle", "done"}
    /\ \/ /\ ~db.exists
          /\ DeleteEnds(404)
       \/ /\ db.exists
          /\ api' = [api EXCEPT !.delete =
                       [@ EXCEPT !.pc = "delete", !.loaded = Loaded(db)]]
       \/ DeleteEnds(500)
    /\ UNCHANGED <<db, redis, now, jobVars, lastCall, calls, calc, clientVars,
                   serviceVars, enqueued>>

\* delete_results, lines 479-481: DELETE of the organism's genes, inside the
\* transaction
DeleteExecute ==
    /\ api.delete.pc = "delete"
    /\ \/ api' = [api EXCEPT !.delete = [@ EXCEPT !.pc = "commit"]]
       \/ DeleteEnds(500)
    /\ UNCHANGED <<db, redis, now, jobVars, lastCall, calls, calc, clientVars,
                   serviceVars, enqueued>>

\* delete_results, lines 487-495: status, job_id and job_error are reset on
\* the loaded object; the commit makes them and the DELETE durable
DeleteCommit ==
    /\ api.delete.pc = "commit"
    /\ \/ /\ db' = [db EXCEPT
                     !.genes = EmptyBag,
                     !.status = IF api.delete.loaded.status # "unset"
                                THEN "unset" ELSE @,
                     !.job_id = IF api.delete.loaded.job_id # None
                                THEN None ELSE @,
                     !.job_error = IF api.delete.loaded.job_error # None
                                   THEN None ELSE @]
          /\ DeleteEnds(204)
       \/ /\ DeleteEnds(500)
          /\ UNCHANGED db
    /\ UNCHANGED <<redis, now, jobVars, lastCall, calls, calc, clientVars,
                   serviceVars, enqueued>>

\* the worker takes the first job from the queue
WorkerBegin ==
    /\ enqueued # <<>>
    /\ api.delete.pc \in {"idle", "done"}
    /\ JobBeginFirst

ApiNext ==
    \/ \E r \in StartRequests : StartSelect(r)
    \/ \E r \in StartRequests : StartEnqueue(r)
    \/ \E r \in StartRequests : StartCommit(r)
    \/ DeleteSelect
    \/ DeleteExecute
    \/ DeleteCommit
    \/ WorkerBegin
    \/ LoadOrganism
    \/ CommitPending
    \/ JobTrackerStart
    \/ UpdFetch0
    \/ FetchGenes
    \/ UpdFetch10
    \/ UpdStore10
    \/ SelectExisting
    \/ StoreBatch
    \/ UpdStore15
    \/ UpdOrth15
    \/ FindOrthologs
    \/ SelectGenes
    \/ OrthIterate
    \/ OrthUpdate
    \/ OrthCommit
    \/ FinalCommit
    \/ CommitComplete
    \/ JobTrackerComplete
    \/ ExceptHandler
    \/ HandlerTrackerError

SpecApi == ApiInit /\ [][ApiNext]_vars

(***************************************************************************)
(* GET /processes/{organism_id}/progress (backend/app/api/processes.py)    *)
(*                                                                         *)
(* Progress queries issued while the worker runs the first delivery of the *)
(* job, and afterwards while time passes.  One action per await of the     *)
(* handler.                                                                *)
(***************************************************************************)
\* the handler of the progress query has ended with a response
ProgressEnds(response) ==
    api' = [api EXCEPT !.query = [@ EXCEPT !.pc = "idle",
                                          !.response = response,
                                          !.asked = TRUE]]

\* the dict returned when the progress entry exists: a status computed from
\* the percent, followed by the fields of the entry
ProgressFromEntry(data) ==
    [NoProgress EXCEPT
       !.code = 200,
       !.status = IF PctLT(data.progress, PctInt(100)) THEN "in_progress"
                  ELSE "complete",
       !.stage = data.stage,
       !.progress = Some(data.progress),
       !.error_message = data.error_message]

\* the dicts returned from the organism's row when there is no entry, for
\* the statuses that need no further query
ProgressFromStatus(loaded) ==
    [NoProgress EXCEPT
       !.code = 200,
       !.status = CASE loaded.status = "error" -> "error"
                    [] loaded.status = "pending" -> "pending"
                    [] OTHER -> "not_started",
       !.progress = Some(PctInt(0)),
       !.error_message = IF loaded.status = "error" THEN loaded.job_error
                         ELSE None]

\* lines 375-430: without an entry the answer comes from the status of the
\* organism; a complete organism needs the gene counts
ProgressFallback(loaded) ==
    IF loaded.status = "complete"
    THEN api' = [api EXCEPT !.query = [@ EXCEPT !.pc = "count",
                                               !.loaded = loaded]]
    ELSE ProgressEnds(ProgressFromStatus(loaded))

\* get_progress, lines 353-362: select the organism
ProgressSelect ==
    /\ api.query.pc = "idle"
    /\ \/ /\ ~db.exists
          /\ ProgressEnds([NoProgress EXCEPT !.code = 404])
       \/ /\ db.exists
          /\ db.job_id # None
          /\ api' = [api EXCEPT !.query = [@ EXCEPT !.pc = "get_progress",
                                                   !.loaded = Loaded(db)]]
       \/ /\ db.exists
          /\ db.job_id = None
          /\ ProgressFallback(Loaded(db))
       \/ ProgressEnds([NoProgress EXCEPT !.code = 500])
    /\ UNCHANGED <<db, redis, now, jobVars, lastCall, calls, calc, clientVars,
                   serviceVars, enqueued>>

\* get_progress, lines 364-377: tracker.get_progress() on the job id of the
\* organism
ProgressGet ==
    /\ api.query.pc = "get_progress"
    /\ \/ LET progress_data == get_progress(redis)
          IN  IF progress_data # None
              THEN ProgressEnds(ProgressFromEntry(progress_data[1]))
              ELSE ProgressFallback(api.query.loaded)
       \/ ProgressEnds([NoProgress EXCEPT !.code = 500])
    /\ UNCHANGED <<db, redis, now, jobVars, lastCall, calls, calc, clientVars,
                   serviceVars, enqueued>>

\* get_progress, lines 384-402: count the genes of a complete organism (of
\* the answers only code, status, stage, progress and error_message are
\* followed, so the counts do not appear)
ProgressCount ==
    /\ api.query.pc = "count"
    /\ \/ ProgressEnds([NoProgress EXCEPT
                          !.code = 200,
                          !.status = "complete",
                          !.progress = Some(PctInt(100))])
       \/ ProgressEnds([NoProgress EXCEPT !.code = 500])
    /\ UNCHANGED <<db, redis, now, jobVars, lastCall, calls, calc, clientVars,
                   serviceVars, enqueued>>

\* the organism may not exist; the start endpoint may have committed
PollInit == JobInit

PollNext ==
    \/ ProgressSelect
    \/ ProgressGet
    \/ ProgressCount
    \/ Tick
    \/ JobBeginFirst
    \/ LoadOrganism
    \/ CommitPending
    \/ JobTrackerStart
    \/ UpdFetch0
    \/ FetchGenes
    \/ UpdFetch10
    \/ UpdStore10
    \/ SelectExisting
    \/ StoreBatch
    \/ UpdStore15
    \/ UpdOrth15
    \/ FindOrthologs
    \/ SelectGenes
    \/ OrthIterate
    \/ OrthUpdate
    \/ OrthCommit
    \/ FinalCommit
    \/ CommitComplete
    \/ JobTrackerComplete
    \/ ExceptHandler
    \/ HandlerTrackerError

SpecPoll == PollInit /\ [][PollNext]_vars

(***************************************************************************)
(* find_orthologs_for_organism over the KEGGClient                         *)
(*                                                                         *)
(* The coroutines of one batch with their group lookups carried out by     *)
(* _request on the shared client: coroutine i of the batch is coroutine i  *)
(* of the client.  The call of _request and its return are steps of their  *)
(* own, so the event loop may run another coroutine in between.            *)
(***************************************************************************)
\* The semaphore (5 permits in the source) is created with fewer permits
\* than the batch has genes, or with as many: in the first case coroutines
\* wait for a permit, in the second they meet at the rate-limit lock.
\*
\* answers of get_organisms_by_ko once _request has returned the text: no
\* gene of another organism, or one
BatchResponses == {<<Candidate("eco", 7)>>, <<Candidate("mmu", 8)>>}

\* answers of the remote side to the requests of a batch: one for each way
\* an attempt of _request ends (success, rate limiting, another failure)
BatchRemote == {200, 429, REQUEST_ERROR}

BatchInit ==
    /\ JobIdle
    /\ ApiUnused
    /\ db = FreshDb(TRUE)
    /\ redis = <<>>
    /\ now = 0
    /\ lastCall = NoCall
    /\ calls = 0
    /\ calc = NoCalc
    /\ client = TRUE
    /\ last_request_time = None
    /\ rate_limit_lock = 0
    /\ co = [c \in Coroutines |-> IdleCo]
    /\ plan = [c \in Coroutines |-> <<>>]
    /\ remote = BatchRemote
    /\ clientLog = NoClientLog
    /\ genes \in BatchLists
    /\ ko_mappings = None
    /\ tasks = <<>>
    /\ semaphore = 0
    /\ \E n \in 1..MaxCoroutines :
          service = [NoService EXCEPT !.pc = "get_ko_mappings", !.permits = n]
    /\ selection = NoSelection

\* get_organisms_by_ko, line 323: coroutine i calls
\* self._request(f"/link/genes/{ko_number}") with the default retries
LookupRequest(i) ==
    /\ service.pc = "gather"
    /\ i <= Len(tasks)
    /\ tasks[i].pc = "lookup"
    /\ co[i] = IdleCo
    /\ LET r == [IdleCo EXCEPT !.retries = BatchRetries]
           log == [clientLog EXCEPT
                   !.first_start = IF @ = None THEN Some(now) ELSE @]
       IN  IF \/ rate_limit_lock # 0
              \/ \E d \in Coroutines : co[d].pc = "rl_wait"
           THEN /\ co' = [co EXCEPT ![i] = [r EXCEPT !.pc = "rl_wait"]]
                /\ clientLog' = log
                /\ UNCHANGED <<last_request_time, rate_limit_lock>>
           ELSE Enter(i, r, log)
    /\ UNCHANGED <<db, redis, now, jobVars, lastCall, calls, calc, serviceVars,
                   apiVars, client, plan, remote>>

\* _request of coroutine i has ended: find_ortholog_for_gene goes on with
\* the answer (lines 297-310)
LookupReturn(i) ==
    /\ service.pc = "gather"
    /\ i <= Len(tasks)
    /\ tasks[i].pc = "lookup"
    /\ co[i].pc = "idle"
    /\ co[i].result # "none"
    /\ co' = [co EXCEPT ![i] = IdleCo]
    /\ IF co[i].result = "returned"
       THEN \E genes_in_ko \in BatchResponses :
              LET ortholog == find_best_ortholog_in_ko(
                                genes[i], KoIds(i)[tasks[i].ko_i],
                                ORGANISM_CODE, genes_in_ko)
                  obs == Append(tasks[i].seen, Answered(genes_in_ko))
              IN  IF ortholog # None
                  THEN TaskReturns(i, ortholog[1], semaphore, obs)
                  ELSE NextKo(i, tasks[i].ko_i, semaphore, obs)
       ELSE NextKo(i, tasks[i].ko_i, semaphore,
                   Append(tasks[i].seen, Failed("KEGGAPIError")))
    /\ UNCHANGED <<db, redis, now, jobVars, lastCall, calls, calc, apiVars,
                   selection, genes, ko_mappings, service, client,
                   last_request_time, rate_limit_lock, plan, remote,
                   clientLog>>

BatchNext ==
    \/ GetKoMappings
    \/ \E i \in 1..MaxBatch : TaskStart(i)
    \/ \E i \in 1..MaxBatch : TaskAcquire(i)
    \/ \E i \in 1..MaxBatch : LookupRequest(i)
    \/ \E c \in Coroutines : LockAcquired(c)
    \/ \E c \in Coroutines : RateLimitWake(c)
    \/ \E c \in Coroutines : Response(c)
    \/ \E c \in Coroutines : BackoffWake(c)
    \/ \E i \in 1..MaxBatch : LookupReturn(i)
    \/ SleepElapses
    \/ Gathered

SpecBatch == BatchInit /\ [][BatchNext]_vars

\* the event loop runs every coroutine that is ready and its clock advances;
\* every network call ends with an answer or an error
SpecBatchLive == SpecBatch /\ WF_vars(BatchNext)

(***************************************************************************)
(* Properties                                                              *)
(***************************************************************************)
Range(s) == {s[i] : i \in 1..Len(s)}
Last(s) == s[Len(s)]

Terminated == pc = "done" /\ outcome # <<>>
JobRaised == Terminated /\ outcome[1].kind = "raised"
JobReturned == Terminated /\ outcome[1].kind = "returned"

\* C1: once the store stage of process_organism_job has finished, the gene
\* rows of the organism are exactly the fetched genes: one row per fetched
\* name, no duplicate and no row of an earlier run.
C1_StoreReplacesRows ==
    pc = "upd_store15" =>
        /\ BagCardinality(db.genes) = Len(genes_data)
        /\ RowNames(db.genes) = Range(genes_data)

\* C2: whenever an invocation of process_organism_job for an existing
\* organism has terminated (returned or raised), the committed
\* Organism.status is 'complete' or 'error'.
C2_TerminalStatus ==
    (Terminated /\ db.exists) => db.status \in {"complete", "error"}

\* C3: in a run of process_organism_job that ends by raising, status
\* 'complete' was never committed and stage 'complete' was never written to
\* the progress entry.
C3_NoCompleteOnFailure ==
    JobRaised =>
        /\ ~completeCommitted
        /\ STAGE_COMPLETE \notin Range(stageLog)

\* C4: when an exception occurred in the fetch, store or resolve stage, the
\* job ends with Organism.status='error' committed with an error text of at
\* most 1000 characters, the progress entry in stage 'error', and the same
\* exception propagated to the caller.
C4_ErrorPath ==
    (Terminated /\ exception # <<>>
       /\ exception[1].stage \in {"fetch", "store", "resolve"}) =>
        /\ db.status = "error"
        /\ db.job_error # None
        /\ db.job_error[1].len <= 1000
        /\ redis # <<>>
        /\ redis[1].stage = STAGE_ERROR
        /\ outcome[1].kind = "raised"
        /\ outcome[1].exc = exception[1]

StageOrder ==
    <<STAGE_FETCHING_GENES, STAGE_STORING_GENES, STAGE_FINDING_ORTHOLOGS,
      STAGE_COMPLETE>>

\* s without consecutive repetitions
RECURSIVE Dedup(_)
Dedup(s) ==
    IF Len(s) <= 1 THEN s
    ELSE IF s[1] = s[2] THEN Dedup(Tail(s))
         ELSE <<s[1]>> \o Dedup(Tail(s))

\* C5: the stage values written to the progress entry during one run are,
\* repetitions aside, a prefix of fetching_genes, storing_genes,
\* finding_orthologs, complete, optionally ended by error; complete and
\* error are written at most once and nothing is written after them.
C5_StageSequence ==
    LET d == Dedup(stageLog)
        body == IF d # <<>> /\ Last(d) = STAGE_ERROR
                THEN SubSeq(d, 1, Len(d) - 1) ELSE d
    IN  /\ Len(body) <= Len(StageOrder)
        /\ body = SubSeq(StageOrder, 1, Len(body))
        /\ \A i \in 1..Len(stageLog) :
             stageLog[i] \in {STAGE_COMPLETE, STAGE_ERROR} => i = Len(stageLog)
        /\ ~(STAGE_COMPLETE \in Range(stageLog)
               /\ STAGE_ERROR \in Range(stageLog))

C5_Witness ==
    /\ JobReturned
    /\ Dedup(stageLog) = StageOrder
    /\ Len(stageLog) > Len(StageOrder)

\* C6: during the runs of a job no write other than start() lowers the
\* percent stored in the job's progress entry.
C6_PercentMonotonic ==
    [][(redis # <<>> /\ redis' # <<>> /\ pc # "tracker_start")
         => PctLE(redis[1].progress, redis'[1].progress)]_vars

C6_Witness ==
    /\ pc = "orth_commit"
    /\ redis # <<>>
    /\ redis[1].stage = STAGE_FINDING_ORTHOLOGS
    /\ PctLT(PctInt(15), redis[1].progress)
    /\ PctLT(redis[1].progress, PctInt(100))

\* C7: the percent stored by ProgressTracker is always within [0, 100],
\* whatever progress arguments start/update/complete/error were called with.
C7_PercentInRange ==
    redis # <<>> =>
        /\ PctLE(PctInt(0), redis[1].progress)
        /\ PctLE(redis[1].progress, PctInt(100))

\* rangeStart + (rangeEnd - rangeStart) * p / 100, clamped to the range
StageOverall(stage, p) ==
    LET w == STAGE_WEIGHTS(stage, <<0, 100>>)
        v == Pct(w[1] * 100 * p.d + (w[2] - w[1]) * p.n, 100 * p.d)
    IN  IF PctLT(v, PctInt(w[1])) THEN PctInt(w[1])
        ELSE IF PctLT(PctInt(w[2]), v) THEN PctInt(w[2])
        ELSE v

\* C8: update(stage, p) stores the overall percent
\* rangeStart + (rangeEnd - rangeStart) * p with p the progress within the
\* stage, clamped to the range of the stage (the stored value is rounded to
\* two decimals).
C8_UpdateMapsStageProgress ==
    (lastCall.op = "update" /\ redis # <<>>) =>
        redis[1].progress = Round2(StageOverall(lastCall.stage,
                                                lastCall.progress))

\* C9: for each of the three stages and 0 <= processed <= total,
\* calculate_stage_progress is non-decreasing in processed, is the start of
\* the stage's range at processed = 0 and the end of the range at
\* processed = total (total > 0), stays inside the range, and is the start
\* of the range when total = 0.
C9_StageProgress ==
    calc.result # None =>
        LET w == STAGE_WEIGHTS(calc.stage, <<0, 0>>)
            r == calc.result[1]
        IN  /\ PctLE(PctInt(w[1]), r)
            /\ PctLE(r, PctInt(w[2]))
            /\ calc.processed = 0 => r = PctInt(w[1])
            /\ (calc.total > 0 /\ calc.processed = calc.total)
                 => r = PctInt(w[2])
            /\ calc.total = 0 => r = PctInt(w[1])
            /\ calc.prev # None => PctLE(calc.prev[1], r)

C9_Witness ==
    /\ calc.result # None
    /\ calc.prev # None
    /\ 0 < calc.processed
    /\ calc.processed < calc.total
    /\ PctLT(calc.prev[1], calc.result[1])
    /\ PctLT(calc.result[1], PctInt(STAGE_WEIGHTS(calc.stage, <<0, 0>>)[2]))

\* C10: ProgressTracker.error changes only the stage (to 'error'), the
\* stored error message (at most 1000 characters) and updated-at; percent,
\* counters, organism fields, started-at and final stats are left as they
\* were, and an absent entry stays absent.
C10_ErrorFrame ==
    [][(calls' = calls + 1 /\ lastCall'.op = "error") =>
         IF redis = <<>> THEN redis' = <<>>
         ELSE /\ redis' # <<>>
              /\ redis'[1].stage = STAGE_ERROR
              /\ redis'[1].error_message # None
              /\ redis'[1].error_message[1].len <= 1000
              /\ [redis'[1] EXCEPT
                    !.stage = redis[1].stage,
                    !.error_message = redis[1].error_message,
                    !.updated_at = redis[1].updated_at] = redis[1]]_vars

C10_Witness ==
    /\ lastCall.op = "error"
    /\ redis # <<>>
    /\ redis[1].stage = STAGE_ERROR
    /\ PctLT(PctInt(0), redis[1].progress)
    /\ redis[1].genes_processed > 0
    /\ redis[1].updated_at > redis[1].started_at
    /\ redis[1].error_message = Some([tag |-> "msg", len |-> 1000])


\* the snapshot get_progress returns is the completion state with the
\* given payload
CompleteSnapshot(snapshot, final_stats) ==
    /\ snapshot # None
    /\ snapshot[1].stage = STAGE_COMPLETE
    /\ snapshot[1].progress = PctInt(100)
    /\ snapshot[1].final_stats = final_stats

\* C11 (as stated): after complete(final_stats) has been called, get_progress()
\* returns a snapshot with stage 'complete', progress 100 and the final-stats
\* payload.
C11_CompleteSnapshot ==
    [][(calls' = calls + 1 /\ lastCall'.op = "complete"
          /\ lastCall'.final_stats # None)
         => CompleteSnapshot(get_progress(redis'), lastCall'.final_stats)]_vars

\* C11 (amended): when a progress entry exists at the time complete(final_stats)
\* is called with a non-empty payload, get_progress() then returns a snapshot
\* with stage 'complete', progress 100 and that payload; when no entry exists,
\* complete() writes nothing and get_progress() returns None.
C11_CompleteSnapshotOfExistingEntry ==
    [][(calls' = calls + 1 /\ lastCall'.op = "complete")
         => IF redis = <<>>
            THEN get_progress(redis') = None
            ELSE Truthy(lastCall'.final_stats)
                   => CompleteSnapshot(get_progress(redis'),
                                       lastCall'.final_stats)]_vars

C11_Witness ==
    /\ lastCall.op = "complete"
    /\ lastCall.existed
    /\ Truthy(lastCall.final_stats)
    /\ CompleteSnapshot(get_progress(redis), lastCall.final_stats)
    /\ redis[1].updated_at > redis[1].started_at

\* seconds since the last write of the entry
SinceLastWrite == now - redis[1].updated_at

\* C12 (as stated): a progress entry exists only if start() was called for the
\* job id and fewer than TTL seconds have passed since the last write.
C12_EntryOnlyAfterStart ==
    get_progress(redis) # None =>
        /\ lastCall.started
        /\ SinceLastWrite < TTL_SECONDS

\* C12 (amended): a progress entry exists only if fewer than TTL seconds have
\* passed since the last write and either start() was called for the job id
\* or the entry is the placeholder that update() creates when it finds no
\* entry (organism_id 0, organism_code 'unknown').
C12_EntryOnlyAfterWrite ==
    get_progress(redis) # None =>
        /\ SinceLastWrite < TTL_SECONDS
        /\ \/ lastCall.started
           \/ /\ redis[1].organism_id = 0
              /\ redis[1].organism_code = "unknown"

\* the first write is older than the TTL, the entry lives on through a later
\* write, and start() was never called
C12_Witness ==
    /\ get_progress(redis) # None
    /\ ~lastCall.started
    /\ now - redis[1].started_at >= TTL_SECONDS
    /\ SinceLastWrite < TTL_SECONDS


\* C13: K requests through one instance: from the start of the first request
\* to the moment the K-th request passes the rate limiter at least
\* (K-1) x RATE_LIMIT_DELAY elapse, and the first request is never put to
\* sleep by the rate limiter.
C13_SequentialSpacing ==
    /\ clientLog.passes >= 1 =>
          last_request_time[1] - clientLog.first_start[1]
            >= (clientLog.passes - 1) * RATE_LIMIT_DELAY
    /\ \A c \in Coroutines : co[c].pc = "rl_sleep" => clientLog.passes >= 1

\* one coroutine made all the requests, one after the other, as fast as the
\* rate limiter lets it
C13_Witness ==
    /\ clientLog.passes = 3
    /\ \A c \in Coroutines : c # 1 => co[c] = IdleCo
    /\ \A c \in Coroutines : plan[c] = <<>>
    /\ co[1].result = "returned"
    /\ clientLog.first_start = Some(0)
    /\ last_request_time = Some(2 * RATE_LIMIT_DELAY)

\* C14: concurrent callers pass the rate limiter one at a time (at most one is
\* inside the lock-protected section) and the recorded timestamps of
\* consecutive passes differ by at least RATE_LIMIT_DELAY.
C14_Serialized ==
    /\ [](/\ Cardinality({c \in Coroutines : co[c].pc = "rl_sleep"}) <= 1
          /\ \A c \in Coroutines :
                co[c].pc = "rl_sleep" <=> rate_limit_lock = c)
    /\ [][(clientLog'.passes = clientLog.passes + 1
             /\ last_request_time # None)
            => last_request_time'[1] - last_request_time[1]
                 >= RATE_LIMIT_DELAY]_vars

\* one caller sleeps inside the section while another waits for the lock
C14_Witness ==
    /\ clientLog.passes >= 1
    /\ \E c, d \in Coroutines :
         /\ co[c].pc = "rl_sleep"
         /\ co[d].pc = "rl_wait"
         /\ now < co[c].wake

\* C15: any two network calls issued by the instance, retry attempts included,
\* start at least RATE_LIMIT_DELAY apart.
C15_NetworkCallSpacing ==
    [][(clientLog'.net_calls = clientLog.net_calls + 1
         /\ clientLog.last_net # None)
        => now - clientLog.last_net[1] >= RATE_LIMIT_DELAY]_vars

\* a status code below 400 that is not 403 or 429
Succeeded(st) == st >= 100 /\ st < 400

\* C16: when the first R-1 attempts fail and the R-th succeeds (R <= retries),
\* _request returns after exactly R network calls and makes no network call
\* after the success.
C16_SuccessShortCircuits ==
    /\ [](/\ (co[1].net_calls >= 1 /\ Succeeded(co[1].last_status)) =>
                /\ co[1].pc = "idle"
                /\ co[1].result = "returned"
                /\ co[1].net_calls = co[1].attempt + 1
                /\ co[1].net_calls = Len(co[1].sleeps) + 1
                /\ co[1].net_calls <= co[1].retries
          /\ co[1].result = "returned" => Succeeded(co[1].last_status))
    /\ [][co[1].result = "returned"
            => clientLog'.net_calls = clientLog.net_calls]_vars

\* success on the last attempt the limit allows, after failures of every kind
C16_Witness ==
    /\ co[1].result = "returned"
    /\ co[1].retries = MAX_RETRIES
    /\ co[1].net_calls = MAX_RETRIES
    /\ co[1].seen = Responses \ {200}

ClientErrors == {"KEGGAPIError", "KEGGRateLimitError"}

\* C17: with retry limit R >= 1 and every attempt failing, _request (on an
\* initialised client) raises KEGGAPIError or KEGGRateLimitError after exactly
\* R network calls, never fewer and never more.
C17_ExhaustionRaises ==
    (client /\ co[1].retries >= 1) =>
        /\ co[1].net_calls <= co[1].retries
        /\ co[1].result \in ClientErrors =>
              /\ co[1].net_calls = co[1].retries
              /\ ~Succeeded(co[1].last_status)
              /\ co[1].result = "KEGGRateLimitError"
                   <=> co[1].last_status \in {403, 429}
        /\ (/\ co[1].net_calls = co[1].retries
            /\ co[1].pc = "idle"
            /\ ~Succeeded(co[1].last_status))
             => co[1].result \in ClientErrors

C17_Witness ==
    /\ client
    /\ co[1].retries = 3
    /\ co[1].net_calls = 3
    /\ co[1].result = "KEGGRateLimitError"
    /\ co[1].seen = {REQUEST_ERROR, 500, 429}

\* the delays of the claim, in seconds
ExpectedDelays == <<1, 2, 4, 8, 16, 30, 30, 30, 30>>

\* C18: the sleep after the failed attempt with 0-based index a is exactly
\* min(INITIAL_RETRY_DELAY * 2^a, MAX_RETRY_DELAY) (1, 2, 4, 8, 16, 30, 30, ...
\* seconds) for every failure kind; the delays are non-decreasing and never
\* exceed the cap, and no sleep follows the final failed attempt.
C18_BackoffDelays ==
    /\ \A i \in 1..Len(co[1].sleeps) :
         /\ co[1].sleeps[i] = ExpectedDelays[i] * TicksPerSecond
         /\ co[1].sleeps[i] <= MAX_RETRY_DELAY
         /\ i > 1 => co[1].sleeps[i - 1] <= co[1].sleeps[i]
    /\ co[1].pc = "backoff" =>
         /\ Len(co[1].sleeps) = co[1].attempt + 1
         /\ co[1].wake - co[1].sleeps[Len(co[1].sleeps)] <= now
         /\ now <= co[1].wake
    /\ co[1].pc = "get" => Len(co[1].sleeps) = co[1].attempt
    /\ (co[1].pc = "idle" /\ co[1].net_calls >= 1) =>
         Len(co[1].sleeps) = co[1].net_calls - 1

\* every attempt the default limit allows has failed
C18_Witness ==
    /\ co[1].result = "KEGGAPIError"
    /\ co[1].retries = MAX_RETRIES
    /\ co[1].sleeps = [i \in 1..9 |-> ExpectedDelays[i] * TicksPerSecond]
    /\ co[1].seen = Responses \ {200}


\* the call has ended: it returned its list or raised
ServiceReturned == service.pc = "returned"
ServiceRaised == service.pc = "raised"

\* C19: for every input list, the empty list included, a call of
\* find_orthologs_for_organism ends by returning exactly one result per input
\* gene, in input order.
C19_OneResultPerGene ==
    (ServiceReturned \/ ServiceRaised) =>
        /\ ServiceReturned
        /\ Len(service.results) = Len(genes)
        /\ \A i \in 1..Len(genes) : service.results[i].gene_id = genes[i]

\* C20: find_orthologs_for_organism never raises a failure of the client: the
\* call returns and the failure is encoded in the results as genes without
\* an ortholog.
C20_NeverRaises == ~(ServiceRaised /\ service.exception = "KEGGAPIError")

\* the per-gene coroutines have all been run to their end by gather
BatchResolved ==
    /\ (ServiceReturned \/ ServiceRaised)
    /\ tasks # <<>>

\* every lookup the gene at position i made was answered with a list
OwnLookupsSucceed(i) ==
    \A k \in 1..Len(tasks[i].seen) : tasks[i].seen[k].outcome = "list"

\* some lookup of the gene at position i raised
LookupFailed(i) ==
    \E k \in 1..Len(tasks[i].seen) : tasks[i].seen[k].outcome # "list"

\* the result of a gene as a function of the gene, its KO ids and the
\* answers to its own lookups, and of nothing else
OwnResult(gene_id, ko_ids, obs) ==
    LET found(k) == find_best_ortholog_in_ko(gene_id, ko_ids[k],
                                             ORGANISM_CODE,
                                             obs[k].genes_in_ko)
        hits == {k \in 1..Len(obs) : found(k) # None}
    IN  IF ko_ids = <<>>
        THEN ServiceResult(gene_id, None, None, 0, "KEGG_KO_NO_ASSIGNMENT")
        ELSE IF hits = {}
        THEN ServiceResult(gene_id, None, Some(ko_ids[1]), 0,
                           "KEGG_KO_NO_ORTHOLOG")
        ELSE found(CHOOSE k \in hits : \A j \in hits : k <= j)[1]

\* C21: partial-failure isolation.  Once the batch is resolved the call has
\* returned, and the result of every gene whose own lookups succeeded is a
\* function of that gene, its KO ids and the answers to its own lookups: it
\* is the same whether or not lookups of other genes failed.
C21_PartialFailureIsolation ==
    BatchResolved =>
        /\ ServiceReturned
        /\ \A i \in 1..Len(genes) :
              OwnLookupsSucceed(i) =>
                  service.results[i] =
                      OwnResult(genes[i], KoIds(i), tasks[i].seen)

\* a lookup of one gene raised, and another gene got its ortholog
C21_Witness ==
    /\ ServiceReturned
    /\ \E i, j \in 1..Len(genes) :
          /\ tasks[j].raised # "none"
          /\ service.results[j].method = "ERROR"
          /\ OwnLookupsSucceed(i)
          /\ tasks[i].seen # <<>>
          /\ HasOrtholog(service.results[i])

\* some lookup of the gene at position i raised the client's service error
ClientErrorRaised(i) ==
    \E k \in 1..Len(tasks[i].seen) : tasks[i].seen[k].outcome = "KEGGAPIError"

\* C22: a gene whose group-membership lookup raised the client's service
\* error gets an 'ERROR' result, and the number of 'ERROR' results equals
\* the number of genes whose lookup raised.
C22_LookupErrorIsError ==
    ServiceReturned =>
        /\ \A i \in 1..Len(genes) :
              ClientErrorRaised(i) => service.results[i].method = "ERROR"
        /\ Cardinality({i \in 1..Len(genes) :
                          service.results[i].method = "ERROR"})
             = Cardinality({i \in 1..Len(genes) : LookupFailed(i)})

\* _find_best_ortholog_in_ko has returned
Selected == selection.pc = "returned"

\* positions of the response that hold a gene of another organism
ForeignAt(genes_in_ko, exclude_organism) ==
    {k \in 1..Len(genes_in_ko) :
       /\ HasColon(genes_in_ko[k])
       /\ CandidateOrg(genes_in_ko[k]) # exclude_organism}

\* C23: no result names an ortholog of the source organism: for every
\* response, a result with an ortholog names an entry of the response whose
\* organism prefix differs from the source organism code, and whenever the
\* response holds a gene of another organism the result has an ortholog,
\* also when genes of the source organism precede it.
C23_NoSourceOrtholog ==
    Selected =>
        LET src == selection.exclude_organism
            g == selection.genes_in_ko
            o == selection.ortholog
        IN  /\ o # None =>
                  /\ HasOrtholog(o[1])
                  /\ \E k \in ForeignAt(g, src) :
                        o[1].ortholog_gene_id = Some(g[k])
                  /\ CandidateOrg(o[1].ortholog_gene_id[1]) # src
            /\ ForeignAt(g, src) # {} => o # None

\* the response starts with two genes of the source organism and the gene
\* after them is selected
C23_Witness ==
    /\ Selected
    /\ selection.exclude_organism = "eco"
    /\ selection.genes_in_ko =
         <<Candidate("eco", 7), Candidate("eco", 7), Candidate("xyz", 12)>>
    /\ selection.ortholog # None
    /\ selection.ortholog[1].ortholog_gene_id = Some(Candidate("xyz", 12))

\* score of the entry at position k of the response
ScoreAt(genes_in_ko, exclude_organism, k) ==
    calculate_ortholog_score(exclude_organism, CandidateOrg(genes_in_ko[k]))

\* genes of different organisms never have the same score
DistinctScores(genes_in_ko, exclude_organism) ==
    \A j, k \in ForeignAt(genes_in_ko, exclude_organism) :
       CandidateOrg(genes_in_ko[j]) # CandidateOrg(genes_in_ko[k]) =>
           ScoreAt(genes_in_ko, exclude_organism, j)
             # ScoreAt(genes_in_ko, exclude_organism, k)

\* organism of the ortholog selected from a response, "" if none
SelectedOrg(genes_in_ko, exclude_organism) ==
    LET o == find_best_ortholog_in_ko(7, "K1", exclude_organism, genes_in_ko)
    IN  IF o = None THEN "" ELSE CandidateOrg(o[1].ortholog_gene_id[1])

\* C24: within one KO group the selected ortholog is the first entry, in
\* the order of the response, among the entries of other organisms with the
\* maximum score, and its score is the confidence; when organisms have
\* distinct scores the selected organism is the same for every permutation
\* of the response.
C24_FirstBest ==
    (Selected /\ selection.ortholog # None) =>
        LET src == selection.exclude_organism
            g == selection.genes_in_ko
            o == selection.ortholog[1]
            F == ForeignAt(g, src)
            first == CHOOSE k \in F :
                       /\ \A j \in F : ScoreAt(g, src, j) <= ScoreAt(g, src, k)
                       /\ \A j \in F : j < k =>
                                          ScoreAt(g, src, j) < ScoreAt(g, src, k)
        IN  /\ o.ortholog_gene_id = Some(g[first])
            /\ o.confidence = ScoreAt(g, src, first)
            /\ DistinctScores(g, src) =>
                  \A p \in Permutations(1..Len(g)) :
                     SelectedOrg([k \in 1..Len(g) |-> g[p[k]]], src)
                       = CandidateOrg(g[first])

\* two organisms of equal weight: the one named first is selected although
\* entries of lower score precede it
C24_Witness ==
    /\ Selected
    /\ selection.exclude_organism = "mmu"
    /\ selection.genes_in_ko =
         <<Candidate("xyz", 12), Candidate("rno", 11), Candidate("dme", 10)>>
    /\ selection.ortholog # None
    /\ selection.ortholog[1].ortholog_gene_id = Some(Candidate("rno", 11))

\* C25: every confidence value of a result lies in [0, 100], for every pair
\* of source organism and candidate organism.
C25_ConfidenceInRange ==
    (Selected /\ selection.ortholog # None) =>
        /\ 0 <= selection.ortholog[1].confidence
        /\ selection.ortholog[1].confidence <= 100

\* every KO id of the gene at position i was looked up and answered, and no
\* answer holds a gene of another organism
NoCandidateInAnyGroup(i) ==
    /\ KoIds(i) # <<>>
    /\ Len(tasks[i].seen) = Len(KoIds(i))
    /\ \A k \in 1..Len(tasks[i].seen) :
          /\ tasks[i].seen[k].outcome = "list"
          /\ ForeignAt(tasks[i].seen[k].genes_in_ko, ORGANISM_CODE) = {}

\* C26: a gene without a KO id gets the NoAssignment result (no ortholog,
\* no ko_id) and no group-membership fetch is made for it; a gene with KO
\* ids none of whose groups holds a gene of another organism gets the
\* NoOrthologInGroup result (no ortholog, ko_id = its first KO id).
C26_OutcomeClassification ==
    ServiceReturned =>
        \A i \in 1..Len(genes) :
           /\ KoIds(i) = <<>> =>
                 /\ service.results[i] =
                      ServiceResult(genes[i], None, None, 0,
                                    "KEGG_KO_NO_ASSIGNMENT")
                 /\ tasks[i].seen = <<>>
           /\ NoCandidateInAnyGroup(i) =>
                 service.results[i] =
                     ServiceResult(genes[i], None, Some(KoIds(i)[1]), 0,
                                   "KEGG_KO_NO_ORTHOLOG")

\* one gene without a KO id and one gene with two KO ids whose groups hold
\* no gene of another organism
C26_Witness ==
    /\ ServiceReturned
    /\ Len(genes) = 2
    /\ KoIds(1) = <<>>
    /\ service.results[1].method = "KEGG_KO_NO_ASSIGNMENT"
    /\ KoIds(2) = <<"K1", "K2">>
    /\ NoCandidateInAnyGroup(2)
    /\ tasks[2].seen[2].genes_in_ko # <<>>
    /\ service.results[2].method = "KEGG_KO_NO_ORTHOLOG"
    /\ service.results[2].ko_id = Some("K1")

\* resolutions inside `async with semaphore`
InFlight == {i \in 1..Len(tasks) : tasks[i].pc = "lookup"}

\* C27: at any time at most SemaphorePermits resolutions are in flight, the
\* permits and the resolutions in flight add up to the size of the pool, and
\* every gene's resolution eventually has entered and left the pool.
C27_BoundedPool ==
    /\ [](service.pc = "gather" =>
             /\ Cardinality(InFlight) <= SemaphorePermits
             /\ semaphore + Cardinality(InFlight) = SemaphorePermits)
    /\ \A i \in 1..MaxBatch :
          (service.pc = "gather" /\ i <= Len(tasks))
             ~> (i <= Len(tasks) /\ tasks[i].pc = "done")

\* the pool is full and a coroutine waits for a permit
C27_Witness ==
    /\ service.pc = "gather"
    /\ Cardinality(InFlight) = SemaphorePermits
    /\ \E i \in 1..Len(tasks) : tasks[i].pc = "waiting"

\* results of find_orthologs_for_organism that name an ortholog
Matched == {k \in 1..Len(ortholog_results) : ortholog_results[k].has_ortholog}

\* results of find_orthologs_for_organism that replace an exception
ErrorResults ==
    {k \in 1..Len(ortholog_results) : ortholog_results[k].method = "ERROR"}

C29_ErrorsTallied ==
    (pc \in {"commit_complete", "tracker_complete"} /\ redis # <<>>) =>
        redis[1].errors = Cardinality(ErrorResults)

\* values of Organism.status
StatusValues == {"unset", "pending", "complete", "error"}

\* C30: Organism.status is always one of unset, pending, complete, error,
\* and it changes only in steps of process_organism_job: no step of another
\* operation changes it.
C30_StatusOnlyByOrchestrator ==
    /\ [](db.status \in StatusValues)
    /\ [][db'.status # db.status => jobVars' # jobVars]_vars

\* start requests that were answered with a job id
StartsAnswered == {r \in StartRequests : api.start[r].response.code = 200}

\* no handler has failed and results were never deleted: the only
\* operations so far are POST start requests
OnlyStarts ==
    /\ api.delete.pc = "idle"
    /\ \A r \in StartRequests : api.start[r].response.code # 500

\* C31: while the organism is pending and the job has not been taken by the
\* worker, concurrent start requests have enqueued at most one job, and
\* every request that was answered got the id of that job.
C31_StartIdempotent ==
    (OnlyStarts /\ db.status = "pending" /\ runs = 0) =>
        /\ Len(enqueued) <= 1
        /\ \A r \in StartsAnswered :
              api.start[r].response.job_id = Some(enqueued[1])

\* the job has ended after one of its commits of a terminal status: it
\* returned, or it raised after the commit of its except clause
JobCommittedTerminal ==
    /\ Terminated
    /\ \/ outcome[1].kind = "returned"
       \/ outcome[1].exc.stage # "except"
       \/ outcome[1].exc.type = "RedisError"

\* C39: when the only job enqueued has committed a terminal status and has
\* ended, and no start request is still being handled, the organism is
\* complete or error: the start request's commit of status='pending' has not
\* replaced the status its job wrote.
C39_TerminalStatusKept ==
    (/\ JobCommittedTerminal
     /\ enqueued = <<JOB_ID>>
     /\ api.delete.pc = "idle"
     /\ \A r \in StartRequests : api.start[r].pc \in {"idle", "done"}) =>
        db.status \in {"complete", "error"}

\* C32: a progress query that read the organism's status as 'error' and is
\* answered after the failed job has ended reports status 'error' with the
\* error message, whether or not the job's progress entry still exists.
C32_FailedJobReportsError ==
    [][(/\ Terminated
        /\ api.query.pc = "get_progress"
        /\ api.query.loaded.status = "error"
        /\ api'.query.pc = "idle"
        /\ api'.query.response.code = 200) =>
           /\ api'.query.response.status = "error"
           /\ api'.query.response.error_message # None]_vars

\* C33: progress is pushed while the genes are being resolved: at the moment
\* find_orthologs_for_organism hands back the results of more genes than one
\* update interval, the stored percent is already above 15.
C33_ProgressWhileResolving ==
    (/\ pc = "select_genes"
     /\ Len(ortholog_results) > PROGRESS_UPDATE_INTERVAL
     /\ redis # <<>>) =>
        PctLT(PctInt(15), redis[1].progress)

\* C34: when the organism record is absent the job ends by raising the
\* not-found error (the ValueError of line 209), no progress entry exists
\* and no row has changed.
C34_NotFoundFailsFast ==
    (Terminated /\ ~db.exists /\ exception # <<>>
       /\ exception[1].type = "ValueError") =>
        /\ outcome[1].kind = "raised"
        /\ outcome[1].exc.type = "ValueError"
        /\ redis = <<>>
        /\ db = FreshDb(FALSE)

\* the answer to the k-th lookup of coroutine i holds a gene of another
\* organism
GroupYields(i, k) ==
    /\ tasks[i].seen[k].outcome = "list"
    /\ ForeignAt(tasks[i].seen[k].genes_in_ko, ORGANISM_CODE) # {}

WritingOps == {"start", "update", "complete", "error"}

\* C36: every write of the entry (start, update, complete, error) sets its
\* time to live to the full TTL_SECONDS from the moment of the write, and
\* the passing of time removes the entry exactly when TTL_SECONDS have
\* passed since its last write.
C36_SlidingExpiration ==
    /\ TTL_SECONDS = 86400
    /\ [][(calls' = calls + 1 /\ lastCall'.op \in WritingOps
             /\ redis' # <<>>) =>
            /\ redis'[1].updated_at = now
            /\ redis'[2] = now + TTL_SECONDS]_vars
    /\ [][(calls' = calls /\ redis # <<>>) =>
            (redis' = <<>> <=>
               now' - redis[1].updated_at >= TTL_SECONDS)]_vars

\* the entry was started at 0 and written again by complete or error one
\* second before its first time to live ended: it is still there when that
\* time has passed, and will be until a full period after the last write
C36_Witness ==
    /\ redis # <<>>
    /\ lastCall.op \in {"complete", "error"}
    /\ lastCall.started
    /\ redis[1].started_at = 0
    /\ redis[1].updated_at = TTL_SECONDS - 1
    /\ now = TTL_SECONDS
    /\ redis[2] = 2 * TTL_SECONDS - 1

\* requests inside _rate_limit: holding the lock or waiting for it
InRateLimiter == {c \in Coroutines : co[c].pc \in {"rl_sleep", "rl_wait"}}

\* C37: the rate-limit lock is held only inside _rate_limit, never by a
\* request that sleeps in retry backoff or awaits an answer, and a request
\* is made to wait for the lock only by another request that is inside
\* _rate_limit: requests in backoff do not keep others from passing.
C37_BackoffHoldsNoLock ==
    /\ [](\A c \in Coroutines :
            co[c].pc \in {"backoff", "get"} => rate_limit_lock # c)
    /\ [](rate_limit_lock # 0 => co[rate_limit_lock].pc = "rl_sleep")
    /\ [][\A c \in Coroutines :
            (co[c].pc = "idle" /\ co'[c].pc = "rl_wait") =>
               InRateLimiter \ {c} # {}]_vars

\* request 1 sleeps in its first backoff; request 2 has passed the rate
\* limiter after that sleep began and awaits the answer to its network call
C37_Witness ==
    /\ co[1].pc = "backoff"
    /\ now < co[1].wake
    /\ co[2].pc = "get"
    /\ co[2].net_calls = 1
    /\ rate_limit_lock = 0
    /\ clientLog.last_net # None
    /\ clientLog.last_net[1] > co[1].wake - BackoffDelay(co[1].attempt)

\* the counters of a progress entry are consistent
CountersConsistent(data) ==
    /\ 0 <= data.genes_with_orthologs
    /\ data.genes_with_orthologs <= data.genes_processed
    /\ data.genes_processed <= data.total_genes

\* the final statistics are consistent
FinalStatsConsistent(stats) ==
    /\ stats.genes_with_orthologs <= stats.total_genes
    /\ PctLE(PctInt(0), stats.coverage_percent)
    /\ PctLE(stats.coverage_percent, PctInt(100))

\* C40: every progress entry the job has written has consistent counters
\* (0 <= genes_with_orthologs <= genes_processed <= total_genes), and the
\* final statistics have genes_with_orthologs <= total_genes and a coverage
\* between 0 and 100.
C40_CountersConsistent ==
    redis # <<>> =>
        /\ CountersConsistent(redis[1])
        /\ redis[1].final_stats # None =>
              FinalStatsConsistent(redis[1].final_stats[1])


\* requests of the batch that are inside _request
InRequest == {c \in Coroutines : co[c].pc # "idle"}

\* the batch has returned with every resource given back
BatchReturned ==
    /\ service.pc = "returned"
    /\ Len(service.results) = Len(genes)
    /\ \A i \in 1..Len(tasks) : tasks[i].pc = "done"
    /\ semaphore = service.permits
    /\ rate_limit_lock = 0
    /\ InRequest = {}

\* C38: find_orthologs_for_organism ends and cannot block.  While the
\* coroutines run, the permits taken are the resolutions in flight and the
\* holder of the rate-limit lock is inside the rate limiter; no request makes
\* more network calls than `retries`; every request that has begun ends,
\* every coroutine handed to gather ends, and the call then returns one result
\* per gene with the semaphore full and the lock free.
C38_BatchTerminates ==
    /\ [](service.pc = "gather" =>
             /\ semaphore + Cardinality(InFlight) = service.permits
             /\ semaphore >= 0
             /\ \A c \in Coroutines : co[c].net_calls <= BatchRetries
             /\ rate_limit_lock # 0 => co[rate_limit_lock].pc = "rl_sleep")
    /\ \A c \in Coroutines : (co[c].pc # "idle") ~> (co[c].pc = "idle")
    /\ (service.pc = "gather") ~> BatchReturned
    /\ <>(service.pc \in {"returned", "raised"})

\* the batch of two coroutines that ran side by side has returned, with the
\* semaphore full and the lock free, after a request of each used up its
\* attempts
C38_Witness ==
    /\ BatchReturned
    /\ Len(tasks) = MaxBatch
    /\ service.permits > 1
    /\ clientLog.net_calls >= 2 * BatchRetries
    /\ \A i \in 1..Len(tasks) :
          \E k \in 1..Len(tasks[i].seen) :
             tasks[i].seen[k] = Failed("KEGGAPIError")

====
